---------------------------- MODULE Spec2Model ----------------------------
(***************************************************************************)
(* Model of the DocumentQueryLLM server: the rule-based FallbackProcessor, *)
(* the DocumentAnalyzer (processDocument / analyzeQuery) and the MemStorage *)
(* maps they work on.                                                       *)
(*                                                                          *)
(* Representation.  A JavaScript string that the code searches, splits or   *)
(* re-cases (query text, procedure, location, clause text) is a sequence of *)
(* one-character strings, so that includes(), toLowerCase() and the regular *)
(* expressions are computed character by character.  A string the code only *)
(* compares or copies (criterion, status, decision, sourceClause) is a TLA+ *)
(* string.  An optional field of an object is a key that is or is not in    *)
(* the DOMAIN of the record.  confidenceScore is kept in hundredths (0.85   *)
(* is 85).  The description of a justification entry is display text built  *)
(* from the same fields and is not modelled.                                *)
(***************************************************************************)
EXTENDS Integers, Sequences, FiniteSets, TLC

VARIABLES
  queryTextArg,       \* FallbackProcessor.parseQuery: argument of the last call
  allClausesArg,      \* FallbackProcessor.findRelevantClauses: clause list of the last call
  structuredQuery,    \* FallbackProcessor.makeDecision: argument of the last call
  relevantClauses,    \* FallbackProcessor.makeDecision: argument of the last call
  processingResult,   \* FallbackProcessor.makeDecision: value returned by the last call
  calls,              \* number of makeDecision calls made so far (capped at 1)
  textArg,            \* PDFProcessor.extractClauses: argument of the last call
  clauseCandidates,   \* PDFProcessor.extractClauses: value returned by the last call
  now,                \* the clock read by new Date(), in milliseconds
  history,            \* DocumentAnalyzer.getQueryHistory: user and value returned by the last call
  apiKey,             \* process.env.OPENAI_API_KEY is set
  documents,          \* MemStorage.documents, in insertion order
  documentClauses,    \* MemStorage.documentClauses, in insertion order
  queries,            \* MemStorage.queries, in insertion order
  queryResults,       \* MemStorage.queryResults, in insertion order
  jobs,               \* the processDocument invocation of each document
  requests,           \* the POST /api/queries/process requests and their analyzeQuery locals
  uploads             \* the POST /api/documents/upload requests and their responses

fnVars == <<queryTextArg, allClausesArg, structuredQuery, relevantClauses, processingResult, calls,
           textArg, clauseCandidates, now, history>>
storageVars == <<documents, documentClauses, queries, queryResults>>
sysVars == <<apiKey, documents, documentClauses, queries, queryResults, jobs, requests, uploads>>
vars == <<fnVars, sysVars>>

---------------------------------------------------------------------------
(* Bounds of the model.                                                    *)

\* ages drawn for a StructuredQuery are 0..MaxAge
MaxAge == 66
\* policy durations drawn for a StructuredQuery are 0..MaxPolicyDuration
MaxPolicyDuration == 45
\* Date.now() - startTime is drawn from 0..MaxElapsedMs
MaxElapsedMs == 0
\* the history specification stores at most MaxQueries queries
MaxQueries == 11
\* of which at most MaxOtherUser belong to another user,
MaxOtherUser == 1
\* at most MaxSameMs are created in the millisecond of the one before,
MaxSameMs == 1
\* and at most MaxUnanswered have no result stored
MaxUnanswered == 1
\* the query-only specification receives at most MaxConcurrent requests
MaxConcurrent == 2
\* a text handed to extractClauses is made of at most MaxSegments segments
MaxSegments == 3
\* upload requests made in one run
MaxUploads == 1
\* query requests made in one run
MaxRequests == 1
\* distinct clauses in a clause list handed to findRelevantClauses
MaxClauses == 15
\* clauses of a list that are handed over a second time
MaxRepeated == 1

---------------------------------------------------------------------------
(* JavaScript string and value primitives.                                 *)

UpperChars ==
  <<"A","B","C","D","E","F","G","H","I","J","K","L","M",
    "N","O","P","Q","R","S","T","U","V","W","X","Y","Z">>

LowerChars ==
  <<"a","b","c","d","e","f","g","h","i","j","k","l","m",
    "n","o","p","q","r","s","t","u","v","w","x","y","z">>

\* the lower-case letter of each upper-case letter
UpperToLower ==
  [c \in {UpperChars[i] : i \in 1..Len(UpperChars)} |->
     LowerChars[CHOOSE i \in 1..Len(UpperChars) : UpperChars[i] = c]]

\* the upper-case letter of each lower-case letter
LowerToUpper ==
  [c \in {LowerChars[i] : i \in 1..Len(LowerChars)} |->
     UpperChars[CHOOSE i \in 1..Len(LowerChars) : LowerChars[i] = c]]

\* String.prototype.toLowerCase on one character
toLowerCaseChar(c) == IF c \in DOMAIN UpperToLower THEN UpperToLower[c] ELSE c

\* String.prototype.toUpperCase on one character
toUpperCaseChar(c) == IF c \in DOMAIN LowerToUpper THEN LowerToUpper[c] ELSE c

\* String.prototype.toLowerCase
toLowerCase(s) == <<>> \o [i \in 1..Len(s) |-> toLowerCaseChar(s[i])]

\* String.prototype.includes: t occurs in s as a contiguous substring
includes(s, t) ==
  \E i \in 0..(Len(s) - Len(t)) : SubSeq(s, i + 1, i + Len(t)) = t

\* Array.prototype.includes
arrayIncludes(arr, x) == \E i \in 1..Len(arr) : arr[i] = x

\* a key of an object is set (its value is not undefined)
Has(obj, key) == key \in DOMAIN obj

\* if (obj.key) on a number field: undefined and 0 are falsy
TruthyNumber(obj, key) == Has(obj, key) /\ obj[key] # 0

\* if (obj.key) on a string field: undefined and "" are falsy
TruthyString(obj, key) == Has(obj, key) /\ obj[key] # <<>>

\* the object {} : no key is set
EmptyObject == <<>>

---------------------------------------------------------------------------
(* FallbackProcessor: vocabularies of parseQuery.                          *)

procedures ==
  << <<"k","n","e","e"," ","s","u","r","g","e","r","y">>,
     <<"h","i","p"," ","s","u","r","g","e","r","y">>,
     <<"h","e","a","r","t"," ","s","u","r","g","e","r","y">>,
     <<"c","a","n","c","e","r"," ","t","r","e","a","t","m","e","n","t">>,
     <<"m","a","t","e","r","n","i","t","y">>,
     <<"d","e","n","t","a","l">>,
     <<"e","y","e"," ","s","u","r","g","e","r","y">>,
     <<"s","p","i","n","e"," ","s","u","r","g","e","r","y">>,
     <<"j","o","i","n","t"," ","r","e","p","l","a","c","e","m","e","n","t">>,
     <<"o","r","t","h","o","p","e","d","i","c">>,
     <<"c","a","r","d","i","a","c">>,
     <<"n","e","u","r","o","l","o","g","i","c","a","l">>,
     <<"e","m","e","r","g","e","n","c","y">> >>

locations ==
  << <<"p","u","n","e">>,
     <<"m","u","m","b","a","i">>,
     <<"d","e","l","h","i">>,
     <<"b","a","n","g","a","l","o","r","e">>,
     <<"c","h","e","n","n","a","i">>,
     <<"k","o","l","k","a","t","a">>,
     <<"h","y","d","e","r","a","b","a","d">>,
     <<"a","h","m","e","d","a","b","a","d">>,
     <<"j","a","i","p","u","r">>,
     <<"l","u","c","k","n","o","w">>,
     <<"k","a","n","p","u","r">>,
     <<"n","a","g","p","u","r">> >>

\* location.charAt(0).toUpperCase() + location.slice(1)
capitalize(s) ==
  [i \in 1..Len(s) |-> IF i = 1 THEN toUpperCaseChar(s[i]) ELSE s[i]]

---------------------------------------------------------------------------
(* Regular-expression primitives: a match is followed position by          *)
(* position; a set of positions holds every place a sub-pattern can end.   *)

Digits == <<"0","1","2","3","4","5","6","7","8","9">>

\* \d
IsDigit(c) == c \in {"0", "1", "2", "3", "4", "5", "6", "7", "8", "9"}

\* the value of one decimal digit
DigitValue(c) == (CHOOSE i \in 1..Len(Digits) : Digits[i] = c) - 1

\* \s (the white space the texts of the model use)
IsSpace(c) == c \in {" ", "\n", "\t", "\r"}

\* variant of the separator class without the hyphen (sensitivity of the
\* patterns to hyphenated durations such as 3-month)
IsSeparatorSpaceOnly(c) == IsSpace(c)

\* [-\s]
IsSeparator(c) == c = "-" \/ IsSpace(c)

\* [A-Za-z]
IsLetter(c) == c \in DOMAIN UpperToLower \/ c \in DOMAIN LowerToUpper

\* \w
IsWordChar(c) == IsLetter(c) \/ IsDigit(c) \/ c = "_"

\* parseInt on a non-empty string of decimal digits
RECURSIVE parseInt(_)
parseInt(ds) ==
  IF ds = <<>> THEN 0
  ELSE parseInt(SubSeq(ds, 1, Len(ds) - 1)) * 10 + DigitValue(ds[Len(ds)])

\* the positions just after a literal word that starts at position i
Lit(s, i, w) ==
  IF i + Len(w) - 1 <= Len(s) /\ SubSeq(s, i, i + Len(w) - 1) = w
    THEN {i + Len(w)} ELSE {}

\* \d+ from position i: the positions just after one or more digits
DigitEnds(s, i) ==
  IF i > Len(s) \/ ~IsDigit(s[i]) THEN {}
  ELSE {e \in (i + 1)..(Len(s) + 1) : \A m \in i..(e - 1) : IsDigit(s[m])}

\* [-\s]* from position i: the positions just after zero or more separators
SkipSeparators(s, i) ==
  {k \in i..(Len(s) + 1) : \A m \in i..(k - 1) : IsSeparator(s[m])}

\* \s+ from position i: the positions just after one or more white spaces
SpaceEnds(s, i) ==
  {k \in (i + 1)..(Len(s) + 1) : \A m \in i..(k - 1) : IsSpace(s[m])}

\* the largest element of a non-empty set of positions (the greedy choice)
Greedy(S) == CHOOSE x \in S : \A y \in S : y <= x

\* the smallest element of a non-empty set of positions (the leftmost match)
Leftmost(S) == CHOOSE x \in S : \A y \in S : x <= y

---------------------------------------------------------------------------
(* FallbackProcessor.parseQuery.                                           *)

\* ageMatch taking the last run of digits of the text instead of the first
ageMatchLastDigits(query) ==
  LET starts == {i \in 1..Len(query) : IsDigit(query[i]) /\ (i = 1 \/ ~IsDigit(query[i - 1]))} IN
    IF starts = {} THEN EmptyObject
    ELSE LET i == Greedy(starts) IN
      [age |-> parseInt(SubSeq(query, i, Greedy(DigitEnds(query, i)) - 1))]

\* ageMatch: /(\d+)[-\s]*(year|yr|y)?[-\s]*(old|aged)?/ matches at the first
\* digit, everything after the digits being optional; group 1 is the
\* longest run of digits from there
ageMatch(query) ==
  LET starts == {i \in 1..Len(query) : IsDigit(query[i])} IN
    IF starts = {} THEN EmptyObject
    ELSE LET i == Leftmost(starts) IN
      [age |-> parseInt(SubSeq(query, i, Greedy(DigitEnds(query, i)) - 1))]

\* Extract gender
genderMatch(query) ==
  IF \/ includes(query, <<"m","a","l","e">>)
     \/ includes(query, <<"m",",">>)
     \/ includes(query, <<"4","6","m">>)
    THEN [gender |-> "Male"]
  ELSE IF \/ includes(query, <<"f","e","m","a","l","e">>)
          \/ includes(query, <<"f",",">>)
          \/ includes(query, <<"w","o","m","a","n">>)
    THEN [gender |-> "Female"]
  ELSE EmptyObject

\* Extract procedure/medical condition: the first entry of the list the text includes
procedureMatch(query) ==
  LET hits == {i \in 1..Len(procedures) : includes(query, toLowerCase(procedures[i]))} IN
    IF hits = {} THEN EmptyObject ELSE [procedure |-> procedures[Leftmost(hits)]]

\* Extract location: the first entry of the list the text includes, capitalised
locationMatch(query) ==
  LET hits == {i \in 1..Len(locations) : includes(query, locations[i])} IN
    IF hits = {} THEN EmptyObject ELSE [location |-> capitalize(locations[Leftmost(hits)])]

\* the alternatives of group 2 of the policy pattern, in the order tried
policyUnits ==
  << <<"m","o","n","t","h">>, <<"m","o","n","t","h","s">>, <<"y","r">>,
     <<"y","e","a","r">>, <<"y","e","a","r","s">>, <<"d","a","y">>,
     <<"d","a","y","s">> >>

\* [-\s]*(old|aged)?[-\s]*policy matches from position i
policyTail(s, i) ==
  \E k \in SkipSeparators(s, i) :
    \E m \in ({k} \cup Lit(s, k, <<"o","l","d">>) \cup Lit(s, k, <<"a","g","e","d">>)) :
      \E n \in SkipSeparators(s, m) : Lit(s, n, <<"p","o","l","i","c","y">>) # {}

\* the alternatives of group 2 that lead to a match when tried at position i
unitsAt(s, i) ==
  {u \in 1..Len(policyUnits) :
     /\ Lit(s, i, policyUnits[u]) # {}
     /\ policyTail(s, i + Len(policyUnits[u]))}

\* the ends e of (\d+) from position i from which the rest of the pattern matches
policyDigitEnds(s, i) ==
  {e \in DigitEnds(s, i) : \E k \in SkipSeparators(s, e) : unitsAt(s, k) # {}}

\* unit normalisation of group 2
normalizeUnit(unit) ==
  IF includes(unit, <<"m","o","n","t","h">>) THEN [policyDurationUnit |-> "months"]
  ELSE IF includes(unit, <<"y","e","a","r">>) \/ includes(unit, <<"y","r">>)
    THEN [policyDurationUnit |-> "years"]
  ELSE IF includes(unit, <<"d","a","y">>) THEN [policyDurationUnit |-> "days"]
  ELSE EmptyObject

\* policyMatch: /(\d+)[-\s]*(month|months|yr|year|years|day|days)[-\s]*(old|aged)?[-\s]*policy/
\* the leftmost start, then the longest digits, the longest separators and
\* the first alternative that let the rest match
policyMatch(query) ==
  LET starts == {i \in 1..Len(query) : policyDigitEnds(query, i) # {}} IN
    IF starts = {} THEN EmptyObject
    ELSE LET i == Leftmost(starts)
             e == Greedy(policyDigitEnds(query, i))
             k == Greedy({x \in SkipSeparators(query, e) : unitsAt(query, x) # {}})
             u == Leftmost(unitsAt(query, k))
         IN [policyDuration |-> parseInt(SubSeq(query, i, e - 1))]
            @@ normalizeUnit(policyUnits[u])

\* FallbackProcessor.parseQuery
parseQuery(queryText) ==
  LET query == toLowerCase(queryText) IN
    ageMatch(query) @@ genderMatch(query) @@ procedureMatch(query)
    @@ locationMatch(query) @@ policyMatch(query)

---------------------------------------------------------------------------
(* FallbackProcessor.findRelevantClauses.                                  *)

\* Build search terms based on structured query
searchTerms(q) ==
  (IF TruthyString(q, "procedure")
     THEN <<toLowerCase(q.procedure)>>
          \o (IF includes(toLowerCase(q.procedure), <<"k","n","e","e">>)
                THEN << <<"o","r","t","h","o","p","e","d","i","c">>,
                        <<"s","u","r","g","i","c","a","l">>,
                        <<"j","o","i","n","t">> >>
                ELSE <<>>)
     ELSE <<>>)
  \o (IF TruthyNumber(q, "age")
        THEN << <<"a","g","e">>, <<"a","g","e","d">>, <<"y","e","a","r","s">> >>
        ELSE <<>>)
  \o (IF TruthyString(q, "location")
        THEN << <<"g","e","o","g","r","a","p","h","i","c">>,
                <<"c","o","v","e","r","a","g","e">>,
                <<"c","i","t","i","e","s">>,
                <<"i","n","d","i","a">> >>
        ELSE <<>>)
  \o (IF TruthyNumber(q, "policyDuration")
        THEN << <<"w","a","i","t","i","n","g">>,
                <<"p","e","r","i","o","d">>,
                <<"m","o","n","t","h","s">>,
                <<"c","o","n","t","i","n","u","o","u","s">> >>
        ELSE <<>>)

\* relevanceScore of one clause
relevanceScore(terms, clause) ==
  LET clauseLower == toLowerCase(clause) IN
    Cardinality({t \in 1..Len(terms) : includes(clauseLower, terms[t])})

\* Always include key policy clauses
isKeywordMatch(clause) ==
  LET clauseLower == toLowerCase(clause) IN
    \/ includes(clauseLower, <<"c","o","v","e","r","a","g","e">>)
    \/ includes(clauseLower, <<"e","l","i","g","i","b","l","e">>)
    \/ includes(clauseLower, <<"s","u","r","g","i","c","a","l">>)
    \/ includes(clauseLower, <<"d","e","d","u","c","t","i","b","l","e">>)
    \/ includes(clauseLower, <<"s","u","m"," ","i","n","s","u","r","e","d">>)

\* the elements of arr at the positions of idx, in order (Array.prototype.filter)
selectSeq(arr, idx) ==
  LET F[i \in 0..Len(arr)] ==
        IF i = 0 THEN <<>>
        ELSE IF i \in idx THEN Append(F[i - 1], arr[i]) ELSE F[i - 1]
  IN F[Len(arr)]

\* Array.from(new Set(arr)): the first occurrence of each element, in order
uniqueSeq(arr) ==
  selectSeq(arr, {i \in 1..Len(arr) : \A j \in 1..(i - 1) : arr[j] # arr[i]})

\* variant of slice that keeps the whole array (sensitivity of the cap)
sliceToEnd(arr, n) == arr

\* Array.prototype.slice(0, n)
sliceTo(arr, n) == SubSeq(arr, 1, IF Len(arr) < n THEN Len(arr) ELSE n)

\* FallbackProcessor.findRelevantClauses
findRelevantClauses(q, allClauses) ==
  LET terms == searchTerms(q)
      matched == selectSeq(allClauses,
                   {i \in 1..Len(allClauses) : relevanceScore(terms, allClauses[i]) > 0})
      keywordMatches == selectSeq(allClauses,
                   {i \in 1..Len(allClauses) : isKeywordMatch(allClauses[i])})
      uniqueClauses == uniqueSeq(matched \o keywordMatches)
  IN sliceTo(uniqueClauses, 10)

---------------------------------------------------------------------------
(* FallbackProcessor.makeDecision.                                         *)

\* variant of the initial values that starts from the approval confidence
\* (sensitivity of the default outcome)
DecisionStartConfident ==
  [justification |-> <<>>, decision |-> "pending", amount |-> 0,
   deductible |-> 10000, confidenceScore |-> 85]

\* the locals of makeDecision before the first check
DecisionStart ==
  [justification |-> <<>>, decision |-> "pending", amount |-> 0,
   deductible |-> 10000, confidenceScore |-> 70]

Entry(criterion, status, sourceClause) ==
  [criterion |-> criterion, status |-> status, sourceClause |-> sourceClause]

\* variant of the age test that turns 65 away (sensitivity of the age boundary)
AgeInRangeBelow65(age) == age >= 18 /\ age < 65

\* the age test of the age eligibility check
AgeInRange(age) == age >= 18 /\ age <= 65

\* Age eligibility check
AgeEligibilityCheck(q, s) ==
  IF TruthyNumber(q, "age")
    THEN IF AgeInRange(q.age)
      THEN [s EXCEPT !.justification = Append(@,
              Entry("age_eligibility", "met",
                    "Coverage available for individuals aged 18-65 years at policy inception"))]
      ELSE [s EXCEPT !.justification = Append(@,
              Entry("age_eligibility", "not_met",
                    "Coverage available for individuals aged 18-65 years at policy inception")),
                     !.decision = "rejected"]
    ELSE s

\* variant of the procedure check that does not know 'joint' (sensitivity
\* of the covered-procedure list)
ProcedureCoverageCheckNoJoint(q, s) ==
  IF TruthyString(q, "procedure")
    THEN LET procedureLower == toLowerCase(q.procedure) IN
      IF \/ includes(procedureLower, <<"k","n","e","e">>)
         \/ includes(procedureLower, <<"o","r","t","h","o","p","e","d","i","c">>)
        THEN [s EXCEPT !.justification = Append(@,
                Entry("procedure_coverage", "met",
                      "Orthopedic surgeries including knee, hip, and joint procedures are covered under surgical benefits")),
                       !.amount = 200000]
      ELSE IF includes(procedureLower, <<"d","e","n","t","a","l">>)
        THEN [s EXCEPT !.justification = Append(@,
                Entry("procedure_coverage", "not_met",
                      "Dental treatments are excluded unless due to accident")),
                       !.decision = "rejected"]
      ELSE [s EXCEPT !.justification = Append(@,
                Entry("procedure_coverage", "unclear",
                      "Coverage depends on specific procedure classification and policy terms"))]
    ELSE s

\* Procedure coverage check
ProcedureCoverageCheck(q, s) ==
  IF TruthyString(q, "procedure")
    THEN LET procedureLower == toLowerCase(q.procedure) IN
      IF \/ includes(procedureLower, <<"k","n","e","e">>)
         \/ includes(procedureLower, <<"o","r","t","h","o","p","e","d","i","c">>)
         \/ includes(procedureLower, <<"j","o","i","n","t">>)
        THEN [s EXCEPT !.justification = Append(@,
                Entry("procedure_coverage", "met",
                      "Orthopedic surgeries including knee, hip, and joint procedures are covered under surgical benefits")),
                       !.amount = 200000]
      ELSE IF includes(procedureLower, <<"d","e","n","t","a","l">>)
        THEN [s EXCEPT !.justification = Append(@,
                Entry("procedure_coverage", "not_met",
                      "Dental treatments are excluded unless due to accident")),
                       !.decision = "rejected"]
      ELSE [s EXCEPT !.justification = Append(@,
                Entry("procedure_coverage", "unclear",
                      "Coverage depends on specific procedure classification and policy terms"))]
    ELSE s

\* variant of the normalisation that counts a year as 12 days (sensitivity
\* of the unit factors)
policyAgeInDaysYear12(q) ==
  IF q.policyDurationUnit = "months" THEN q.policyDuration * 30
  ELSE IF q.policyDurationUnit = "years" THEN q.policyDuration * 12
  ELSE q.policyDuration

\* policyAgeInDays of the waiting period check
policyAgeInDays(q) ==
  IF q.policyDurationUnit = "months" THEN q.policyDuration * 30
  ELSE IF q.policyDurationUnit = "years" THEN q.policyDuration * 365
  ELSE q.policyDuration

\* Waiting period check
WaitingPeriodCheck(q, s) ==
  IF TruthyNumber(q, "policyDuration") /\ Has(q, "policyDurationUnit")
    THEN IF policyAgeInDays(q) >= 30
      THEN [s EXCEPT !.justification = Append(@,
              Entry("waiting_period", "met",
                    "30-day waiting period applies to non-emergency surgical procedures from policy commencement date"))]
      ELSE [s EXCEPT !.justification = Append(@,
              Entry("waiting_period", "not_met",
                    "30-day waiting period applies to non-emergency surgical procedures from policy commencement date")),
                     !.decision = "rejected"]
    ELSE s

majorCities ==
  << <<"p","u","n","e">>,
     <<"m","u","m","b","a","i">>,
     <<"d","e","l","h","i">>,
     <<"b","a","n","g","a","l","o","r","e">>,
     <<"c","h","e","n","n","a","i">>,
     <<"k","o","l","k","a","t","a">> >>

\* variant of the geographic check that turns other cities away
\* (sensitivity of the unclear outcome)
GeographicCoverageCheckStrict(q, s) ==
  IF TruthyString(q, "location")
    THEN IF arrayIncludes(majorCities, toLowerCase(q.location))
      THEN [s EXCEPT !.justification = Append(@,
              Entry("geographic_coverage", "met",
                    "Coverage valid across all major cities and towns in India including Mumbai, Delhi, Pune, Bangalore, Chennai, Kolkata"))]
      ELSE [s EXCEPT !.justification = Append(@,
              Entry("geographic_coverage", "not_met",
                    "Coverage extends throughout India with network hospital availability")),
                     !.decision = "rejected"]
    ELSE s

\* Geographic coverage check
GeographicCoverageCheck(q, s) ==
  IF TruthyString(q, "location")
    THEN IF arrayIncludes(majorCities, toLowerCase(q.location))
      THEN [s EXCEPT !.justification = Append(@,
              Entry("geographic_coverage", "met",
                    "Coverage valid across all major cities and towns in India including Mumbai, Delhi, Pune, Bangalore, Chennai, Kolkata"))]
      ELSE [s EXCEPT !.justification = Append(@,
              Entry("geographic_coverage", "unclear",
                    "Coverage extends throughout India with network hospital availability"))]
    ELSE s

\* justification.filter(j => j.status === status).length
CountStatus(justification, status) ==
  Cardinality({i \in 1..Len(justification) : justification[i].status = status})

\* variant of the final decision that keeps the amount on a rejection
\* (sensitivity of the amount reset)
FinalDecisionKeepsAmount(s) ==
  LET metCriteria == CountStatus(s.justification, "met")
      notMetCriteria == CountStatus(s.justification, "not_met")
  IN IF notMetCriteria = 0 /\ metCriteria >= 2
       THEN [s EXCEPT !.decision = "approved", !.confidenceScore = 85]
     ELSE IF notMetCriteria > 0
       THEN [s EXCEPT !.decision = "rejected", !.confidenceScore = 90]
     ELSE s

\* variant of the final decision that asks for three met criteria
\* (sensitivity of the approval threshold)
FinalDecisionThreeMet(s) ==
  LET metCriteria == CountStatus(s.justification, "met")
      notMetCriteria == CountStatus(s.justification, "not_met")
  IN IF notMetCriteria = 0 /\ metCriteria >= 3
       THEN [s EXCEPT !.decision = "approved", !.confidenceScore = 85]
     ELSE IF notMetCriteria > 0
       THEN [s EXCEPT !.decision = "rejected", !.amount = 0, !.confidenceScore = 90]
     ELSE s

\* variant of the final decision that grants the default coverage amount
\* on every approval
FinalDecisionAmountOnApproval(s) ==
  LET metCriteria == CountStatus(s.justification, "met")
      notMetCriteria == CountStatus(s.justification, "not_met")
  IN IF notMetCriteria = 0 /\ metCriteria >= 2
       THEN [s EXCEPT !.decision = "approved", !.amount = 200000, !.confidenceScore = 85]
     ELSE IF notMetCriteria > 0
       THEN [s EXCEPT !.decision = "rejected", !.amount = 0, !.confidenceScore = 90]
     ELSE s

\* Final decision logic
FinalDecision(s) ==
  LET metCriteria == CountStatus(s.justification, "met")
      notMetCriteria == CountStatus(s.justification, "not_met")
  IN IF notMetCriteria = 0 /\ metCriteria >= 2
       THEN [s EXCEPT !.decision = "approved", !.confidenceScore = 85]
     ELSE IF notMetCriteria > 0
       THEN [s EXCEPT !.decision = "rejected", !.amount = 0, !.confidenceScore = 90]
     ELSE s

NotSpecified == <<"N","o","t"," ","s","p","e","c","i","f","i","e","d">>

\* variant of policyDurationMonths that reports days undivided (sensitivity
\* of the days-to-months division)
policyDurationMonthsDaysKept(q) ==
  LET unit == IF Has(q, "policyDurationUnit") THEN q.policyDurationUnit ELSE "undefined"
      durationOrZero == IF Has(q, "policyDuration") THEN q.policyDuration ELSE 0
  IN IF unit = "months"
       THEN (IF Has(q, "policyDuration") THEN [policyDurationMonths |-> q.policyDuration]
             ELSE EmptyObject)
     ELSE IF unit = "years" THEN [policyDurationMonths |-> durationOrZero * 12]
     ELSE [policyDurationMonths |-> durationOrZero]

\* policyDurationMonths of coverageDetails; (policyDuration || 0) is 0 when unset
policyDurationMonths(q) ==
  LET unit == IF Has(q, "policyDurationUnit") THEN q.policyDurationUnit ELSE "undefined"
      durationOrZero == IF Has(q, "policyDuration") THEN q.policyDuration ELSE 0
  IN IF unit = "months"
       THEN (IF Has(q, "policyDuration") THEN [policyDurationMonths |-> q.policyDuration]
             ELSE EmptyObject)
     ELSE IF unit = "years" THEN [policyDurationMonths |-> durationOrZero * 12]
     ELSE [policyDurationMonths |-> durationOrZero \div 30]

\* coverageDetails of the returned object
coverageDetails(q) ==
  [procedure |-> IF TruthyString(q, "procedure") THEN q.procedure ELSE NotSpecified,
   location |-> IF TruthyString(q, "location") THEN q.location ELSE NotSpecified]
  @@ (IF Has(q, "age") THEN [patientAge |-> q.age] ELSE EmptyObject)
  @@ policyDurationMonths(q)

\* variant of makeDecision that returns the default deductible whatever the
\* decision (sensitivity of the deductible to the decision)
makeDecisionKeepsDeductible(q, clauses, elapsed) ==
  LET s == FinalDecision(
             GeographicCoverageCheck(q,
               WaitingPeriodCheck(q,
                 ProcedureCoverageCheck(q,
                   AgeEligibilityCheck(q, DecisionStart)))))
  IN [decision |-> s.decision,
      amount |-> s.amount,
      deductible |-> s.deductible,
      coverageDetails |-> coverageDetails(q),
      justification |-> s.justification,
      confidenceScore |-> s.confidenceScore,
      processingTimeMs |-> elapsed]

\* variant of makeDecision that approves only with a retrieved clause to
\* cite
makeDecisionReadsClauses(q, clauses, elapsed) ==
  LET s == FinalDecision(
             GeographicCoverageCheck(q,
               WaitingPeriodCheck(q,
                 ProcedureCoverageCheck(q,
                   AgeEligibilityCheck(q, DecisionStart)))))
      decision == IF s.decision = "approved" /\ clauses = <<>> THEN "pending" ELSE s.decision
  IN [decision |-> decision,
      amount |-> s.amount,
      deductible |-> IF decision = "approved" THEN s.deductible ELSE 0,
      coverageDetails |-> coverageDetails(q),
      justification |-> s.justification,
      confidenceScore |-> s.confidenceScore,
      processingTimeMs |-> elapsed]

\* FallbackProcessor.makeDecision; elapsed is Date.now() - startTime
makeDecision(q, clauses, elapsed) ==
  LET s == FinalDecision(
             GeographicCoverageCheck(q,
               WaitingPeriodCheck(q,
                 ProcedureCoverageCheck(q,
                   AgeEligibilityCheck(q, DecisionStart)))))
  IN [decision |-> s.decision,
      amount |-> s.amount,
      deductible |-> IF s.decision = "approved" THEN s.deductible ELSE 0,
      coverageDetails |-> coverageDetails(q),
      justification |-> s.justification,
      confidenceScore |-> s.confidenceScore,
      processingTimeMs |-> elapsed]

---------------------------------------------------------------------------
(* PDFProcessor.extractClauses.                                            *)

\* [.!?]
IsTerminator(c) == c \in {".", "!", "?"}

\* the elements of a set of positions in increasing order
sortedSeq(S) ==
  [k \in 1..Cardinality(S) |-> CHOOSE x \in S : Cardinality({y \in S : y < x}) = k - 1]

\* text.split(/[.!?]+/): the pieces between the runs of terminators (a text
\* that starts or ends with a terminator has an empty first or last piece).
\* A piece starts at position 1 and after each run of terminators.
splitSentences(text) ==
  LET n == Len(text)
      starts == {i \in 1..(n + 1) :
                   \/ i = 1
                   \/ /\ IsTerminator(text[i - 1])
                      /\ (i = n + 1 \/ ~IsTerminator(text[i]))}
      endOf(i) == Leftmost({j \in i..(n + 1) : j = n + 1 \/ IsTerminator(text[j])})
      order == sortedSeq(starts)
  IN [k \in 1..Len(order) |-> SubSeq(text, order[k], endOf(order[k]) - 1)]

\* String.prototype.trim
trim(s) ==
  LET kept == {i \in 1..Len(s) : ~IsSpace(s[i])} IN
    IF kept = {} THEN <<>> ELSE SubSeq(s, Leftmost(kept), Greedy(kept))

\* the sentences of extractClauses: split, trimmed, longer than 20 characters
sentencesOf(text) ==
  LET pieces == splitSentences(text)
      trimmed == [i \in 1..Len(pieces) |-> trim(pieces[i])]
  IN selectSeq(trimmed, {i \in 1..Len(trimmed) : Len(trimmed[i]) > 20})

sectionWords ==
  << <<"s","e","c","t","i","o","n">>, <<"c","l","a","u","s","e">>,
     <<"a","r","t","i","c","l","e">>, <<"c","h","a","p","t","e","r">> >>

\* sectionRegex: /(?:Section|Clause|Article|Chapter)\s+([A-Z0-9.]+)/i matches somewhere
sectionMatch(sentence) ==
  LET lower == toLowerCase(sentence) IN
    \E i \in 1..Len(sentence), w \in 1..Len(sectionWords) :
      \E j \in Lit(lower, i, sectionWords[w]) :
        \E k \in SpaceEnds(sentence, j) :
          /\ k <= Len(sentence)
          /\ (IsLetter(sentence[k]) \/ IsDigit(sentence[k]) \/ sentence[k] = ".")

\* clauseRegex: /(\d+(?:\.\d+)*)\s+([A-Za-z])/ ; a sentence holds no "." (it
\* was split on them), so group 1 is a run of digits.  The ends of group 1
\* for a match that starts at position i.
clauseNumberEnds(sentence, i) ==
  {e \in DigitEnds(sentence, i) :
     \E k \in SpaceEnds(sentence, e) : k <= Len(sentence) /\ IsLetter(sentence[k])}

\* group 1 of the leftmost clauseRegex match, or no value
clauseMatch(sentence) ==
  LET starts == {i \in 1..Len(sentence) : clauseNumberEnds(sentence, i) # {}} IN
    IF starts = {} THEN <<>>
    ELSE LET i == Leftmost(starts) IN
      << SubSeq(sentence, i, Greedy(clauseNumberEnds(sentence, i)) - 1) >>

\* definitionRegex: /\b(\w+)\s+means\b/i matches somewhere
definitionMatch(sentence) ==
  LET lower == toLowerCase(sentence) IN
    \E b \in 1..Len(sentence) :
      /\ Lit(lower, b, <<"m","e","a","n","s">>) # {}
      /\ (b + 5 > Len(sentence) \/ ~IsWordChar(sentence[b + 5]))
      /\ \E a \in 2..(b - 1) :
           /\ \A m \in a..(b - 1) : IsSpace(sentence[m])
           /\ IsWordChar(sentence[a - 1])

\* Number.prototype.toString of a natural number
RECURSIVE intToString(_)
intToString(n) ==
  IF n < 10 THEN <<Digits[n + 1]>>
  ELSE intToString(n \div 10) \o <<Digits[(n % 10) + 1]>>

\* Only include significant content
isSignificant(sentence) ==
  \/ Len(sentence) > 30
  \/ sectionMatch(sentence)
  \/ clauseMatch(sentence) # <<>>
  \/ definitionMatch(sentence)
  \/ includes(sentence, <<"c","o","v","e","r","e","d">>)
  \/ includes(sentence, <<"i","n","s","u","r","a","n","c","e">>)
  \/ includes(sentence, <<"p","o","l","i","c","y">>)
  \/ includes(sentence, <<"c","l","a","i","m">>)
  \/ includes(sentence, <<"b","e","n","e","f","i","t">>)
  \/ includes(sentence, <<"e","x","c","l","u","s","i","o","n">>)
  \/ includes(sentence, <<"p","r","e","m","i","u","m">>)

\* extractClauses without the carry-forward: only a header sentence itself
\* records a section
extractClausesNoCarry(text) ==
  LET sentences == sentencesOf(text)
      sig == sortedSeq({n \in 1..Len(sentences) : isSignificant(sentences[n])})
  IN <<>> \o [j \in 1..Len(sig) |->
       LET sentence == sentences[sig[j]] IN
         [clauseText |-> sentence,
          clauseNumber |-> IF clauseMatch(sentence) # <<>> THEN clauseMatch(sentence)[1]
                           ELSE intToString(sig[j])]
         @@ (IF sectionMatch(sentence) THEN [section |-> sentence] ELSE EmptyObject)]

\* PDFProcessor.extractClauses: st.currentSection is '' or the last header
\* sentence; a clause records section (unset when currentSection is '') and
\* clauseNumber (group 1 of clauseRegex, else the 1-based sentence index)
extractClauses(text) ==
  LET sentences == sentencesOf(text)
      F[n \in 0..Len(sentences)] ==
        IF n = 0 THEN [currentSection |-> <<>>, clauses |-> <<>>]
        ELSE LET sentence == sentences[n]
                 prev == F[n - 1]
                 currentSection == IF sectionMatch(sentence) THEN sentence
                                   ELSE prev.currentSection
                 clauseNumber == IF clauseMatch(sentence) # <<>>
                                   THEN clauseMatch(sentence)[1]
                                   ELSE intToString(n)
             IN [currentSection |-> currentSection,
                 clauses |->
                   IF isSignificant(sentence)
                     THEN Append(prev.clauses,
                            [clauseText |-> sentence, clauseNumber |-> clauseNumber]
                            @@ (IF currentSection # <<>>
                                  THEN [section |-> currentSection] ELSE EmptyObject))
                     ELSE prev.clauses]
  IN F[Len(sentences)].clauses

---------------------------------------------------------------------------
(* Values that may be null or undefined: <<>> is null, <<v>> is the value v. *)

Null == <<>>
Some(v) == <<v>>

\* value || null on a string: '' and undefined become null
stringOrNull(obj, key) == IF TruthyString(obj, key) THEN Some(obj[key]) ELSE Null

\* value || null on a number: 0 and undefined become null
numberOrNull(obj, key) == IF TruthyNumber(obj, key) THEN Some(obj[key]) ELSE Null

\* value?.toString() on an optional natural number
optionalToString(obj, key) == IF Has(obj, key) THEN Some(intToString(obj[key])) ELSE Null

\* Number.prototype.toString of a confidence score kept in hundredths (0..100)
confidenceToString(h) ==
  IF h % 100 = 0 THEN intToString(h \div 100)
  ELSE intToString(h \div 100) \o <<".">> \o
       (IF h % 10 = 0 THEN intToString((h % 100) \div 10)
        ELSE intToString((h % 100) \div 10) \o intToString(h % 10))

---------------------------------------------------------------------------
(* Upload filter (multerConfig.ts).                                        *)

\* path.extname: from the last "." of the name, '' when there is none or
\* when the only "." is the first character
extname(name) ==
  LET dots == {i \in 1..Len(name) : name[i] = "."} IN
    IF dots = {} \/ Greedy(dots) = 1 THEN <<>>
    ELSE SubSeq(name, Greedy(dots), Len(name))

allowedExtensions ==
  << <<".","p","d","f">>, <<".","d","o","c">>, <<".","d","o","c","x">> >>

allowedMimeTypes ==
  << "application/pdf", "application/msword",
     "application/vnd.openxmlformats-officedocument.wordprocessingml.document",
     "application/octet-stream" >>

\* fileFilter: cb(null, true) or cb(new Error('Invalid file type...'))
fileFilter(file) ==
  \/ arrayIncludes(allowedExtensions, toLowerCase(extname(file.originalname)))
  \/ arrayIncludes(allowedMimeTypes, file.mimetype)

\* String.prototype.endsWith
endsWith(s, t) == Len(s) >= Len(t) /\ SubSeq(s, Len(s) - Len(t) + 1, Len(s)) = t

---------------------------------------------------------------------------
(* MemStorage (server/storage.ts).  nanoid() is the position in the map;   *)
(* the Date fields are not modelled.                                       *)

createDocument(docs, insertDocument) ==
  Append(docs,
    [id |-> Len(docs) + 1,
     userId |-> insertDocument.userId,
     filename |-> insertDocument.filename,
     originalName |-> insertDocument.originalName,
     mimeType |-> insertDocument.mimeType,
     extractedText |-> Null,
     isProcessed |-> FALSE])

\* variant of updateDocumentText that stores nothing
updateDocumentTextNotStored(docs, id, extractedText) == docs

updateDocumentText(docs, id, extractedText) ==
  IF id \in DOMAIN docs
    THEN [docs EXCEPT ![id].extractedText = Some(extractedText)]
    ELSE docs

markDocumentProcessed(docs, id) ==
  IF id \in DOMAIN docs THEN [docs EXCEPT ![id].isProcessed = TRUE] ELSE docs

createDocumentClause(cls, insertClause) ==
  Append(cls,
    [id |-> Len(cls) + 1,
     documentId |-> insertClause.documentId,
     clauseText |-> insertClause.clauseText,
     section |-> stringOrNull(insertClause, "section"),
     clauseNumber |-> stringOrNull(insertClause, "clauseNumber"),
     embedding |-> insertClause.embedding])

\* getAllClauses: Array.from(this.documentClauses.values())
getAllClauses(cls) == cls

createQuery(qs, insertQuery) ==
  Append(qs,
    [id |-> Len(qs) + 1,
     userId |-> insertQuery.userId,
     queryText |-> insertQuery.queryText,
     structuredData |-> insertQuery.structuredData])

\* MemStorage.createQuery with its createdAt: new Date()
createQueryAt(qs, insertQuery, createdAt) ==
  Append(qs,
    [id |-> Len(qs) + 1,
     userId |-> insertQuery.userId,
     queryText |-> insertQuery.queryText,
     structuredData |-> insertQuery.structuredData,
     createdAt |-> createdAt])

\* MemStorage.getUserQueries: the queries of the user, sorted by createdAt
\* descending (Array.prototype.sort is stable: queries of the same
\* millisecond stay in insertion order), cut to the first 10
getUserQueries(qs, userId) ==
  LET idx == {i \in 1..Len(qs) : qs[i].userId = userId}
      before(i, j) ==
        \/ qs[i].createdAt > qs[j].createdAt
        \/ qs[i].createdAt = qs[j].createdAt /\ i < j
      userQueries ==
        [k \in 1..Cardinality(idx) |->
           qs[CHOOSE i \in idx : Cardinality({j \in idx : before(j, i)}) = k - 1]]
  IN sliceTo(<<>> \o userQueries, 10)

\* MemStorage.getQueryResult: the first stored result of the query, or undefined
getQueryResult(rs, queryId) ==
  LET hits == {i \in 1..Len(rs) : rs[i].queryId = queryId} IN
    IF hits = {} THEN Null ELSE Some(rs[Leftmost(hits)])

\* DocumentAnalyzer.getQueryHistory
getQueryHistory(qs, rs, userId) ==
  LET found == getUserQueries(qs, userId) IN
    <<>> \o [k \in 1..Len(found) |->
               [query |-> found[k], result |-> getQueryResult(rs, found[k].id)]]

createQueryResult(rs, insertResult) ==
  Append(rs,
    [id |-> Len(rs) + 1,
     queryId |-> insertResult.queryId,
     decision |-> insertResult.decision,
     amount |-> insertResult.amount,
     deductible |-> insertResult.deductible,
     justification |-> insertResult.justification,
     confidenceScore |-> insertResult.confidenceScore,
     processingTimeMs |-> insertResult.processingTimeMs])

---------------------------------------------------------------------------
(* OpenAIService (server/services/openai.ts): what the service returns     *)
(* without an API key, and the replies drawn for the external model.       *)

\* parseQuery without an API key
parseQueryNoKey(queryText) ==
  [procedure |-> IF Len(queryText) > 30 THEN SubSeq(queryText, 1, 30) ELSE queryText,
   preExistingConditions |-> <<>>,
   additionalInfo |-> "Processed in fallback mode (no API key)"]

\* findRelevantClauses without an API key: allClauses.slice(0, Math.min(3, length))
findRelevantClausesNoKey(allClauses) == sliceTo(allClauses, 3)

\* makeDecision without an API key
makeDecisionNoKey(q, elapsed) ==
  [decision |-> "pending",
   confidenceScore |-> 50,
   processingTimeMs |-> elapsed,
   coverageDetails |->
     (IF Has(q, "procedure") THEN [procedure |-> q.procedure] ELSE EmptyObject)
     @@ (IF Has(q, "location") THEN [location |-> q.location] ELSE EmptyObject)
     @@ (IF Has(q, "age") THEN [patientAge |-> q.age] ELSE EmptyObject)
     @@ (IF Has(q, "policyDuration")
           THEN [policyDurationMonths |-> q.policyDuration] ELSE EmptyObject),
   justification |->
     << Entry("API Key Validation", "unclear", "System Configuration") >>]

\* a StructuredQuery the external model may reply to parseQuery
AiQueryInputs ==
  { [age |-> 46, gender |-> "M",
     procedure |-> <<"k","n","e","e"," ","s","u","r","g","e","r","y">>,
     location |-> <<"P","u","n","e">>,
     policyDuration |-> 3, policyDurationUnit |-> "months",
     preExistingConditions |-> <<>>] }

\* the JSON objects the external model may reply to makeDecision: a complete
\* result, and {} (no decision, no confidenceScore)
AiResultInputs ==
  { [decision |-> "approved", amount |-> 150000, deductible |-> 5000,
     coverageDetails |-> [patientAge |-> 46, policyDurationMonths |-> 3],
     justification |-> << Entry("age_eligibility", "met", "Clause 0") >>,
     confidenceScore |-> 95],
    EmptyObject }

\* makeDecision with an API key: { ...result, processingTimeMs }
makeDecisionWithKey(reply, elapsed) == [processingTimeMs |-> elapsed] @@ reply

\* findRelevantClauses with an API key: the clauses at the indices the model
\* replies (drawn here as none or all of them, in order)
AiClauseSelections(allClauses) == {<<>>, allClauses}

\* generateEmbedding, then JSON.stringify: the vector, or [] after an error
EmbeddingInputs == {"[0.1]", "[]"}

---------------------------------------------------------------------------
(* DocumentAnalyzer.processDocument and its inputs.                        *)

\* getRealInsurancePolicyData: the opening of the built-in policy text, up
\* to the end of its first definition
getRealInsurancePolicyData ==
  <<"\n"," "," "," "," "," "," ","S","E","C","T","I","O","N"," ","B",")"," ","D","E","F","I","N","I","T","I","O","N","S"," ","-"," ","S","T","A","N","D","A","R","D"," ","D","E","F","I","N","I","T","I","O","N","S","\n","\n"," "," "," "," "," "," ","1","."," ","A","c","c","i","d","e","n","t",":"," ","A","n"," ","A","c","c","i","d","e","n","t"," ","m","e","a","n","s"," ","s","u","d","d","e","n",","," ","u","n","f","o","r","e","s","e","e","n"," ","a","n","d"," ","i","n","v","o","l","u","n","t","a","r","y"," ","e","v","e","n","t"," ","c","a","u","s","e","d"," ","b","y"," ","e","x","t","e","r","n","a","l",","," ","v","i","s","i","b","l","e"," ","a","n","d"," ","v","i","o","l","e","n","t"," ","m","e","a","n","s",".","\n">>

\* the states of the uploaded file on disk
PdfFileInputs == {"missing", "not_pdf", "corrupt", "no_text", "text"}

\* the text pdf-parse extracts from a readable PDF
PdfText ==
  <<"S","e","c","t","i","o","n"," ","1"," ","c","o","v","e","r","s"," ","k","n","e","e"," ","s","u","r","g","e","r","y"," ","c","l","a","i","m","s","."," ","D","e","n","t","a","l"," ","c","a","r","e"," ","i","s"," ","a","n"," ","e","x","c","l","u","s","i","o","n","!">>

\* PDFProcessor.extractText: Null when it throws, else the text it returns
extractText(fileState) ==
  IF fileState = "missing" THEN Null
  ELSE IF fileState = "not_pdf"
    THEN Some(<<"I","n","v","a","l","i","d"," ","P","D","F"," ","f","i","l","e"," ","f","o","r","m","a","t">>)
  ELSE IF fileState = "corrupt"
    THEN Some(<<"E","r","r","o","r"," ","p","a","r","s","i","n","g"," ","P","D","F"," ","c","o","n","t","e","n","t">>)
  ELSE IF fileState = "no_text"
    THEN Some(<<"N","o"," ","t","e","x","t"," ","c","o","n","t","e","n","t"," ","f","o","u","n","d"," ","i","n"," ","P","D","F">>)
  ELSE Some(PdfText)

\* the document is handled by the PDF parser
isPdfDocument(document) ==
  \/ document.mimeType = "application/pdf"
  \/ endsWith(toLowerCase(document.filename), <<".","p","d","f">>)

\* Extract text from document
extractedTextOf(document, fileState) ==
  IF isPdfDocument(document)
    THEN (IF extractText(fileState) # Null THEN extractText(fileState)[1]
          ELSE getRealInsurancePolicyData)
    ELSE getRealInsurancePolicyData

---------------------------------------------------------------------------
(* Inputs of the makeDecision calls: the StructuredQuery objects that      *)
(* FallbackProcessor.parseQuery can return (gender is left out: no check   *)
(* reads it).  A policy duration is only extracted from a text that holds  *)
(* a number, so it comes with an age, and always with its unit.            *)

AgeInputs == {EmptyObject} \cup {[age |-> a] : a \in 0..MaxAge}

ProcedureInputs ==
  {EmptyObject} \cup {[procedure |-> procedures[i]] : i \in {1, 5, 6, 9, 10}}

LocationInputs ==
  {EmptyObject} \cup {[location |-> capitalize(locations[i])] : i \in {1, 6, 7}}

DurationInputs ==
  {EmptyObject} \cup
  {[policyDuration |-> d, policyDurationUnit |-> u] :
     d \in 0..MaxPolicyDuration, u \in {"days", "months", "years"}}

\* a policy duration comes with an age (see above)
StructuredQueryInput(a, p, l, d) ==
  IF d # EmptyObject /\ a = EmptyObject THEN a @@ p @@ l ELSE a @@ p @@ l @@ d

ClauseListInputs ==
  { <<>> }

---------------------------------------------------------------------------
(* Specification of the decision engine: makeDecision is called on one of  *)
(* the inputs and returns.                                                  *)

NoResult == EmptyObject

\* no makeDecision call made yet
InitFn ==
  /\ queryTextArg = <<>>
  /\ allClausesArg = <<>>
  /\ structuredQuery = EmptyObject
  /\ relevantClauses = <<>>
  /\ processingResult = NoResult
  /\ calls = 0
  /\ textArg = <<>>
  /\ clauseCandidates = <<>>
  /\ now = 1
  /\ history = <<>>

\* new MemStorage(), no request received yet
InitSystem ==
  /\ documents = <<>>
  /\ documentClauses = <<>>
  /\ queries = <<>>
  /\ queryResults = <<>>
  /\ jobs = <<>>
  /\ requests = <<>>
  /\ uploads = <<>>

InitDecision ==
  /\ InitFn
  /\ apiKey = FALSE
  /\ InitSystem

CallMakeDecision ==
  /\ calls = 0
  /\ \E a \in AgeInputs, p \in ProcedureInputs, l \in LocationInputs, d \in DurationInputs,
        c \in ClauseListInputs, elapsed \in 0..MaxElapsedMs :
       LET q == StructuredQueryInput(a, p, l, d) IN
         /\ structuredQuery' = q
         /\ relevantClauses' = c
         /\ processingResult' = makeDecision(q, c, elapsed)
  /\ calls' = 1
  /\ UNCHANGED <<queryTextArg, allClausesArg, textArg, clauseCandidates, now, history, sysVars>>

NextDecision == CallMakeDecision

SpecDecision == InitDecision /\ [][NextDecision]_vars

---------------------------------------------------------------------------
(* Specification of one extractClauses call: the text is put together from *)
(* up to MaxSegments of the segments below (a plain sentence, two headers, *)
(* a segment of 20 characters or fewer, a segment that is not significant, *)
(* a sentence that holds the word 'clause', and a numbered clause).        *)

SegmentInputs ==
  { <<"I","n","t","r","o"," ","c","o","v","e","r","s"," ","c","l","a","i","m","s"," ","f","o","r"," ","a","l","l"," ","m","e","m","b","e","r","s",".">>,
    <<"S","e","c","t","i","o","n"," ","1"," ","c","o","v","e","r","s"," ","k","n","e","e"," ","s","u","r","g","e","r","y"," ","c","l","a","i","m","s",".">>,
    <<"A","r","t","i","c","l","e"," ","B"," ","d","e","n","t","a","l"," ","c","a","r","e"," ","e","x","c","l","u","s","i","o","n","!">>,
    <<"S","h","o","r","t"," ","o","n","e",".">>,
    <<"P","l","e","a","s","e"," ","r","e","a","d"," ","w","i","t","h"," ","c","a","r","e"," ","n","o","w",".">>,
    <<"t","h","i","s"," ","c","l","a","u","s","e"," ","i","s"," ","v","o","i","d"," ","f","o","r"," ","m","i","n","o","r","s","?">>,
    <<"2","2"," ","H","o","s","p","i","t","a","l"," ","s","t","a","y","s"," ","a","r","e"," ","c","o","v","e","r","e","d","."," ">> }

\* the texts made of n segments
RECURSIVE TextInputs(_)
TextInputs(n) ==
  IF n = 0 THEN { <<>> }
  ELSE { t \o g : t \in TextInputs(n - 1), g \in SegmentInputs }

InitExtract ==
  /\ InitFn
  /\ apiKey = FALSE
  /\ InitSystem

CallExtractClauses ==
  /\ calls = 0
  /\ \E n \in 0..MaxSegments : \E t \in TextInputs(n) :
       /\ textArg' = t
       /\ clauseCandidates' = extractClauses(t)
  /\ calls' = 1
  /\ UNCHANGED <<queryTextArg, allClausesArg, structuredQuery, relevantClauses,
                 processingResult, now, history, sysVars>>

NextExtract == CallExtractClauses

SpecExtract == InitExtract /\ [][NextExtract]_vars

---------------------------------------------------------------------------
(* Specification of the rule-based path on a query text: parseQuery is     *)
(* called on a text put together from the pieces below, and its result is  *)
(* handed to findRelevantClauses (no clause stored) and makeDecision, as   *)
(* the catch block of analyzeQuery does.                                   *)

AgeTexts ==
  { <<>>, <<"4","6">>, <<"3","0"," ","y","e","a","r","s"," ","o","l","d"," ">>, <<"0"," ","y","r"," ">>, <<"h","e","l","l","o"," ","t","h","e","r","e"," ">> }

GenderTexts ==
  { <<>>, <<"M",","," ">>, <<"m","a","l","e"," ">>, <<"f","e","m","a","l","e"," ">>, <<"F",","," ">>, <<"w","o","m","a","n"," ">> }

ProcedureTexts ==
  { <<>>, <<"k","n","e","e"," ","s","u","r","g","e","r","y",","," ">>, <<"D","e","n","t","a","l"," ","c","h","e","c","k"," ">> }

LocationTexts ==
  { <<>>, <<"P","u","n","e",","," ">>, <<"i","n"," ","n","a","g","p","u","r"," ">> }

PolicyTexts ==
  { <<>>, <<"3","-","m","o","n","t","h"," ","p","o","l","i","c","y">>, <<"2"," ","y","e","a","r","s"," ","o","l","d"," ","p","o","l","i","c","y">>, <<"4","5"," ","d","a","y","s"," ","p","o","l","i","c","y">>, <<"3"," ","m","o","n","t","h","s"," ","o","n"," ","m","y"," ","p","o","l","i","c","y">> }

InitParse ==
  /\ InitFn
  /\ apiKey = FALSE
  /\ InitSystem

CallParseQuery ==
  /\ calls = 0
  /\ \E a \in AgeTexts, g \in GenderTexts, p \in ProcedureTexts, l \in LocationTexts,
        d \in PolicyTexts, elapsed \in 0..MaxElapsedMs :
       LET text == a \o g \o p \o l \o d
           q == parseQuery(text)
           found == findRelevantClauses(q, <<>>)
       IN /\ queryTextArg' = text
          /\ structuredQuery' = q
          /\ relevantClauses' = found
          /\ processingResult' = makeDecision(q, found, elapsed)
  /\ calls' = 1
  /\ UNCHANGED <<allClausesArg, textArg, clauseCandidates, now, history, sysVars>>

NextParse == CallParseQuery

SpecParse == InitParse /\ [][NextParse]_vars

---------------------------------------------------------------------------
(* Specification of the clause search: findRelevantClauses is called on a  *)
(* StructuredQuery and a list of clause texts.  The lists are the runs of  *)
(* the pool below (taken cyclically), followed by a repetition of their    *)
(* first clauses.                                                          *)

ClausePool ==
  << <<"S","u","m"," ","i","n","s","u","r","e","d"," ","l","i","m","i","t">>,
     <<"A","g","e"," ","a">>,
     <<"A","G","E","D"," ","b"," ","i","n","d","i","a">>,
     <<"y","e","a","r","s"," ","c"," ","w","a","i","t","i","n","g">>,
     <<"a","g","e"," ","d"," ","j","o","i","n","t">>,
     <<"a","g","e"," ","e"," ","c","o","v","e","r","a","g","e">>,
     <<"a","g","e"," ","f">>,
     <<"a","g","e"," ","g">>,
     <<"a","g","e"," ","h">>,
     <<"A","g","e"," ","i">>,
     <<"a","g","e"," ","j">>,
     <<"a","g","e"," ","k">>,
     <<"a","g","e"," ","l">>,
     <<"a","g","e"," ","m">>,
     <<"a","g","e"," ","n">>,
     <<"a","g","e"," ","o">>,
     <<"P","r","e","m","i","u","m"," ","d","u","e">>,
     <<"E","l","i","g","i","b","l","e"," ","k","i","n">> >>

\* len clauses of the pool from position start on, wrapping around
poolRun(start, len) ==
  [i \in 1..len |-> ClausePool[((start + i - 2) % Len(ClausePool)) + 1]]

RelevanceQueryInputs ==
  { EmptyObject,
    [age |-> 30],
    [age |-> 0],
    [procedure |-> <<"k","n","e","e"," ","s","u","r","g","e","r","y">>],
    [procedure |-> <<"d","e","n","t","a","l">>],
    [location |-> <<"P","u","n","e">>],
    [age |-> 30, policyDuration |-> 3, policyDurationUnit |-> "months"],
    [age |-> 46, gender |-> "Male", procedure |-> <<"k","n","e","e"," ","s","u","r","g","e","r","y">>, location |-> <<"P","u","n","e">>,
     policyDuration |-> 3, policyDurationUnit |-> "months"] }

InitRelevance ==
  /\ InitFn
  /\ apiKey = FALSE
  /\ InitSystem

CallFindRelevantClauses ==
  /\ calls = 0
  /\ \E q \in RelevanceQueryInputs, start \in 1..Len(ClausePool),
        len \in 0..MaxClauses, repeated \in 0..MaxRepeated :
       LET allClauses == poolRun(start, len)
                         \o poolRun(start, IF repeated < len THEN repeated ELSE len)
       IN /\ structuredQuery' = q
          /\ allClausesArg' = allClauses
          /\ relevantClauses' = findRelevantClauses(q, allClauses)
  /\ calls' = 1
  /\ UNCHANGED <<queryTextArg, processingResult, textArg, clauseCandidates, now, history, sysVars>>

NextRelevance == CallFindRelevantClauses

SpecRelevance == InitRelevance /\ [][NextRelevance]_vars

---------------------------------------------------------------------------
(* Specification of the server: uploads, background document processing    *)
(* and query requests, interleaved at the awaits of the handlers.          *)

\* the files a client may send: name, reported type, over the 10MB limit
FileInputs ==
  { [originalname |-> <<"P","o","l","i","c","y",".","P","D","F">>, mimetype |-> "application/pdf", tooLarge |-> FALSE],
    [originalname |-> <<"t","e","r","m","s",".","d","o","c","x">>, mimetype |-> "application/octet-stream", tooLarge |-> FALSE],
    [originalname |-> <<"n","o","t","e","s",".","t","x","t">>, mimetype |-> "text/plain", tooLarge |-> FALSE],
    [originalname |-> <<"n","o","t","e","s",".","t","x","t">>, mimetype |-> "application/pdf", tooLarge |-> FALSE],
    [originalname |-> <<"n","o","t","e","s",".","t","x","t">>, mimetype |-> "application/octet-stream", tooLarge |-> FALSE],
    [originalname |-> <<"P","o","l","i","c","y",".","P","D","F">>, mimetype |-> "application/pdf", tooLarge |-> TRUE] }

\* the queryText of a request body ('' stands for a missing one as well)
QueryTextInputs ==
  { <<>>,
    <<"4","6","M",","," ","k","n","e","e"," ","s","u","r","g","e","r","y",","," ","P","u","n","e",","," ","3","-","m","o","n","t","h"," ","p","o","l","i","c","y">>,
    <<"d","e","n","t","a","l"," ","c","l","e","a","n","i","n","g">> }

DEMO_USER_ID == "demo-user-123"

\* POST /api/documents/upload: handleFileUpload, then the route handler up
\* to its response; processDocument is left scheduled by setTimeout
UploadDocument ==
  /\ Len(uploads) < MaxUploads
  /\ \E file \in FileInputs :
       IF ~fileFilter(file) \/ file.tooLarge
         THEN /\ uploads' = Append(uploads, [file |-> file, status |-> 400, document |-> Null])
              /\ UNCHANGED <<documents, jobs>>
         ELSE LET documentData ==
                    [userId |-> DEMO_USER_ID,
                     filename |-> intToString(Len(uploads) + 1)
                                    \o toLowerCase(extname(file.originalname)),
                     originalName |-> file.originalname,
                     mimeType |-> file.mimetype]
                  created == createDocument(documents, documentData)
                  document == created[Len(created)]
              IN /\ documents' = created
                 /\ jobs' = Append(jobs, [pc |-> "scheduled", document |-> Null,
                                          extractedText |-> <<>>, clauses |-> <<>>,
                                          stored |-> 0])
                 /\ uploads' = Append(uploads,
                      [file |-> file, status |-> 200,
                       document |-> Some([id |-> document.id,
                                          originalName |-> document.originalName,
                                          isProcessed |-> document.isProcessed])])
  /\ UNCHANGED <<fnVars, apiKey, documentClauses, queries, queryResults, requests>>

\* processDocument: the timer fires and storage.getDocument is called
StartProcessing(id) ==
  /\ jobs[id].pc = "scheduled"
  /\ jobs' = [jobs EXCEPT ![id] =
       IF id \in DOMAIN documents
         THEN [@ EXCEPT !.pc = "extract", !.document = Some(documents[id])]
         ELSE [@ EXCEPT !.pc = "failed"]]
  /\ UNCHANGED <<fnVars, apiKey, storageVars, requests, uploads>>

\* the texts processDocument can hand to extractClauses
ExtractedTextValues ==
  {extractedTextOf([mimeType |-> "application/pdf", filename |-> <<>>], fileState) :
     fileState \in PdfFileInputs}

\* pdfProcessor.extractClauses(extractedText), computed once for each text
clausesOfText == [t \in ExtractedTextValues |-> extractClauses(t)]

\* processDocument: the text is extracted and split into clauses
ExtractText(id) ==
  /\ jobs[id].pc = "extract"
  /\ \E fileState \in PdfFileInputs :
       LET extractedText == extractedTextOf(jobs[id].document[1], fileState) IN
         jobs' = [jobs EXCEPT ![id] =
           [@ EXCEPT !.pc = "store",
                     !.extractedText = extractedText,
                     !.clauses = clausesOfText[extractedText]]]
  /\ UNCHANGED <<fnVars, apiKey, storageVars, requests, uploads>>

\* processDocument: one turn of the loop over the clauses
StoreClause(id) ==
  /\ jobs[id].pc = "store"
  /\ jobs[id].stored < Len(jobs[id].clauses)
  /\ \E embedding \in EmbeddingInputs :
       LET clause == jobs[id].clauses[jobs[id].stored + 1] IN
         documentClauses' = createDocumentClause(documentClauses,
           [documentId |-> id, embedding |-> embedding] @@ clause)
  /\ jobs' = [jobs EXCEPT ![id].stored = @ + 1]
  /\ UNCHANGED <<fnVars, apiKey, documents, queries, queryResults, requests, uploads>>

\* processDocument: after the loop, storage.updateDocumentText is called
UpdateDocumentText(id) ==
  /\ jobs[id].pc = "store"
  /\ jobs[id].stored = Len(jobs[id].clauses)
  /\ documents' = updateDocumentText(documents, id, jobs[id].extractedText)
  /\ jobs' = [jobs EXCEPT ![id].pc = "mark"]
  /\ UNCHANGED <<fnVars, apiKey, documentClauses, queries, queryResults, requests, uploads>>

\* processDocument: storage.markDocumentProcessed is called
MarkDocumentProcessed(id) ==
  /\ jobs[id].pc = "mark"
  /\ documents' = markDocumentProcessed(documents, id)
  /\ jobs' = [jobs EXCEPT ![id].pc = "done"]
  /\ UNCHANGED <<fnVars, apiKey, documentClauses, queries, queryResults, requests, uploads>>

\* clause => clause.clauseText over the stored clauses
clauseTextsOf(allClauses) == [i \in DOMAIN allClauses |-> allClauses[i].clauseText]

\* variant that takes the id of the query stored last instead of the id
\* returned to this invocation
insertResultOfLatestQuery(queryId, result) ==
  [queryId |-> Len(queries),
   decision |-> IF Has(result, "decision") THEN Some(result.decision) ELSE Null,
   amount |-> optionalToString(result, "amount"),
   deductible |-> optionalToString(result, "deductible"),
   justification |-> IF Has(result, "justification") THEN result.justification ELSE <<>>,
   confidenceScore |-> confidenceToString(result.confidenceScore),
   processingTimeMs |-> numberOrNull(result, "processingTimeMs")]

\* the insert object analyzeQuery hands to storage.createQueryResult
insertResultOf(queryId, result) ==
  [queryId |-> queryId,
   decision |-> IF Has(result, "decision") THEN Some(result.decision) ELSE Null,
   amount |-> optionalToString(result, "amount"),
   deductible |-> optionalToString(result, "deductible"),
   justification |-> IF Has(result, "justification") THEN result.justification ELSE <<>>,
   confidenceScore |-> confidenceToString(result.confidenceScore),
   processingTimeMs |-> numberOrNull(result, "processingTimeMs")]

\* variant of the catch block that keeps the StructuredQuery of the failed
\* attempt (sensitivity of the stored query to the rule-based parse)
StartFallbackKeepsQuery(req, failure) ==
  [req EXCEPT !.pc = "fallback",
              !.allClauses = getAllClauses(documentClauses),
              !.path = "fallback",
              !.aiFailures = @ \cup {failure}]

\* the catch block of analyzeQuery up to its await: the rule-based parse and
\* a fresh read of all clauses
StartFallback(req, failure) ==
  [req EXCEPT !.pc = "fallback",
              !.structuredQuery = parseQuery(req.queryText),
              !.allClauses = getAllClauses(documentClauses),
              !.path = "fallback",
              !.aiFailures = @ \cup {failure}]

\* POST /api/queries/process: the body is validated and analyzeQuery starts
SubmitQueryUpTo(limit) ==
  /\ Len(requests) < limit
  /\ \E queryText \in QueryTextInputs :
       requests' = Append(requests,
         [pc |-> IF queryText = <<>> THEN "responded" ELSE "parse",
          status |-> IF queryText = <<>> THEN 400 ELSE 0,
          queryText |-> queryText,
          structuredQuery |-> EmptyObject,
          allClauses |-> <<>>,
          relevantClauses |-> <<>>,
          result |-> NoResult,
          queryId |-> 0,
          path |-> "ai",
          aiFailures |-> {}])
  /\ UNCHANGED <<fnVars, apiKey, storageVars, jobs, uploads>>

\* the route with at most MaxRequests requests received
SubmitQuery == SubmitQueryUpTo(MaxRequests)

\* analyzeQuery: openaiService.parseQuery settles; on success all clauses
\* are read
AiParseQuery(r) ==
  /\ requests[r].pc = "parse"
  /\ \/ /\ ~apiKey
        /\ requests' = [requests EXCEPT ![r] =
             [@ EXCEPT !.pc = "find",
                       !.structuredQuery = parseQueryNoKey(requests[r].queryText),
                       !.allClauses = getAllClauses(documentClauses),
                       !.aiFailures = {"missing credential"}]]
     \/ /\ apiKey
        /\ \E reply \in AiQueryInputs :
             requests' = [requests EXCEPT ![r] =
               [@ EXCEPT !.pc = "find",
                         !.structuredQuery = reply,
                         !.allClauses = getAllClauses(documentClauses)]]
     \/ /\ apiKey
        /\ requests' = [requests EXCEPT ![r] = StartFallback(@, "parseQuery threw")]
  /\ UNCHANGED <<fnVars, apiKey, storageVars, jobs, uploads>>

\* analyzeQuery: openaiService.findRelevantClauses settles (it never throws)
AiFindRelevantClauses(r) ==
  /\ requests[r].pc = "find"
  /\ LET clauseTexts == clauseTextsOf(requests[r].allClauses) IN
       \/ /\ ~apiKey
          /\ requests' = [requests EXCEPT ![r] =
               [@ EXCEPT !.pc = "decide",
                         !.relevantClauses = findRelevantClausesNoKey(clauseTexts)]]
       \/ /\ apiKey
          /\ \E selected \in AiClauseSelections(clauseTexts) :
               requests' = [requests EXCEPT ![r] =
                 [@ EXCEPT !.pc = "decide", !.relevantClauses = selected]]
       \/ /\ apiKey
          /\ requests' = [requests EXCEPT ![r] =
               [@ EXCEPT !.pc = "decide",
                         !.relevantClauses = <<>>,
                         !.aiFailures = @ \cup {"findRelevantClauses failed"}]]
  /\ UNCHANGED <<fnVars, apiKey, storageVars, jobs, uploads>>

\* analyzeQuery: openaiService.makeDecision settles; on success the query
\* is stored
AiMakeDecision(r) ==
  /\ requests[r].pc = "decide"
  /\ \/ /\ ~apiKey
        /\ \E elapsed \in 0..MaxElapsedMs :
             /\ queries' = createQuery(queries,
                  [userId |-> DEMO_USER_ID, queryText |-> requests[r].queryText,
                   structuredData |-> requests[r].structuredQuery])
             /\ requests' = [requests EXCEPT ![r] =
                  [@ EXCEPT !.pc = "store",
                            !.result = makeDecisionNoKey(requests[r].structuredQuery, elapsed),
                            !.queryId = Len(queries) + 1]]
     \/ /\ apiKey
        /\ \E reply \in AiResultInputs, elapsed \in 0..MaxElapsedMs :
             /\ queries' = createQuery(queries,
                  [userId |-> DEMO_USER_ID, queryText |-> requests[r].queryText,
                   structuredData |-> requests[r].structuredQuery])
             /\ requests' = [requests EXCEPT ![r] =
                  [@ EXCEPT !.pc = "store",
                            !.result = makeDecisionWithKey(reply, elapsed),
                            !.queryId = Len(queries) + 1,
                            !.aiFailures = @ \cup (IF Has(reply, "decision") THEN {}
                                                    ELSE {"malformed response"})]]
     \/ /\ apiKey
        /\ requests' = [requests EXCEPT ![r] = StartFallback(@, "makeDecision threw")]
        /\ UNCHANGED queries
  /\ UNCHANGED <<fnVars, apiKey, documents, documentClauses, queryResults, jobs, uploads>>

\* analyzeQuery, catch block after its await: the rule-based search and
\* decision, then the query is stored
FallbackDecide(r) ==
  /\ requests[r].pc = "fallback"
  /\ \E elapsed \in 0..MaxElapsedMs :
       LET q == requests[r].structuredQuery
           found == findRelevantClauses(q, clauseTextsOf(requests[r].allClauses))
       IN /\ queries' = createQuery(queries,
               [userId |-> DEMO_USER_ID, queryText |-> requests[r].queryText,
                structuredData |-> q])
          /\ requests' = [requests EXCEPT ![r] =
               [@ EXCEPT !.pc = "store",
                         !.relevantClauses = found,
                         !.result = makeDecision(q, found, elapsed),
                         !.queryId = Len(queries) + 1]]
  /\ UNCHANGED <<fnVars, apiKey, documents, documentClauses, queryResults, jobs, uploads>>

\* analyzeQuery: the result is stored and returned, or reading
\* result.confidenceScore throws and the route answers 500
StoreResult(r) ==
  /\ requests[r].pc = "store"
  /\ IF Has(requests[r].result, "confidenceScore")
       THEN /\ queryResults' = createQueryResult(queryResults,
                 insertResultOf(requests[r].queryId, requests[r].result))
            /\ requests' = [requests EXCEPT ![r].pc = "responded", ![r].status = 200]
       ELSE /\ requests' = [requests EXCEPT ![r].pc = "responded", ![r].status = 500]
            /\ UNCHANGED queryResults
  /\ UNCHANGED <<fnVars, apiKey, documents, documentClauses, queries, jobs, uploads>>

Init ==
  /\ InitFn
  /\ apiKey \in BOOLEAN
  /\ InitSystem

Next ==
  \/ UploadDocument
  \/ \E id \in DOMAIN jobs : StartProcessing(id)
  \/ \E id \in DOMAIN jobs : ExtractText(id)
  \/ \E id \in DOMAIN jobs : StoreClause(id)
  \/ \E id \in DOMAIN jobs : UpdateDocumentText(id)
  \/ \E id \in DOMAIN jobs : MarkDocumentProcessed(id)
  \/ SubmitQuery
  \/ \E r \in DOMAIN requests : AiParseQuery(r)
  \/ \E r \in DOMAIN requests : AiFindRelevantClauses(r)
  \/ \E r \in DOMAIN requests : AiMakeDecision(r)
  \/ \E r \in DOMAIN requests : FallbackDecide(r)
  \/ \E r \in DOMAIN requests : StoreResult(r)

Spec == Init /\ [][Next]_vars

\* Specification of the query history: queries are stored one after the
\* other (for the demo user or another user, in a new millisecond or in the
\* millisecond of the query before, with or without a result), then
\* getQueryHistory is called for one of the users.
UserInputs == {DEMO_USER_ID, "other-user"}

\* the number of stored queries of another user
OtherUserQueries == Cardinality({i \in 1..Len(queries) : queries[i].userId # DEMO_USER_ID})

\* the number of stored queries created in the millisecond of the one before
SameMsQueries ==
  Cardinality({i \in 2..Len(queries) : queries[i].createdAt = queries[i - 1].createdAt})

InitHistory ==
  /\ InitFn
  /\ apiKey = FALSE
  /\ InitSystem

StoreQuery ==
  /\ calls = 0
  /\ Len(queries) < MaxQueries
  /\ \E userId \in UserInputs, tick \in 0..1, answered \in BOOLEAN :
       /\ (userId # DEMO_USER_ID) => OtherUserQueries < MaxOtherUser
       /\ (tick = 0) => (queries # <<>> /\ SameMsQueries < MaxSameMs)
       /\ ~answered => Len(queries) - Len(queryResults) < MaxUnanswered
       /\ now' = now + tick
       /\ queries' = createQueryAt(queries,
            [userId |-> userId, queryText |-> <<"q">>, structuredData |-> EmptyObject],
            now')
       /\ queryResults' =
            IF answered
              THEN createQueryResult(queryResults,
                     insertResultOf(Len(queries) + 1, makeDecision(EmptyObject, <<>>, 0)))
              ELSE queryResults
  /\ UNCHANGED <<queryTextArg, allClausesArg, structuredQuery, relevantClauses,
                 processingResult, calls, textArg, clauseCandidates, history,
                 apiKey, documents, documentClauses, jobs, requests, uploads>>

GetQueryHistory ==
  /\ calls = 0
  /\ \E userId \in UserInputs :
       history' = [userId |-> userId,
                   entries |-> getQueryHistory(queries, queryResults, userId)]
  /\ calls' = 1
  /\ UNCHANGED <<queryTextArg, allClausesArg, structuredQuery, relevantClauses,
                 processingResult, textArg, clauseCandidates, now, sysVars>>

NextHistory == StoreQuery \/ GetQueryHistory

SpecHistory == InitHistory /\ [][NextHistory]_vars

\* Specification of concurrent query submissions: up to MaxConcurrent
\* requests are received and their analyzeQuery invocations interleave at
\* their awaits (no document is uploaded).
SubmitConcurrentQuery == SubmitQueryUpTo(MaxConcurrent)

NextQueries ==
  \/ SubmitConcurrentQuery
  \/ \E r \in DOMAIN requests : AiParseQuery(r)
  \/ \E r \in DOMAIN requests : AiFindRelevantClauses(r)
  \/ \E r \in DOMAIN requests : AiMakeDecision(r)
  \/ \E r \in DOMAIN requests : FallbackDecide(r)
  \/ \E r \in DOMAIN requests : StoreResult(r)

SpecQueries == Init /\ [][NextQueries]_vars

\* one step of a processDocument invocation
ProcessDocumentStep ==
  \E id \in DOMAIN jobs :
    \/ StartProcessing(id)
    \/ ExtractText(id)
    \/ StoreClause(id)
    \/ UpdateDocumentText(id)
    \/ MarkDocumentProcessed(id)

\* The event loop runs the setTimeout callback of the upload route and
\* resumes processDocument after each await: the file reads, the embedding
\* call (which catches its own errors) and the MemStorage calls all settle.
SpecLive == Init /\ [][Next]_vars /\ WF_vars(ProcessDocumentStep)


---------------------------------------------------------------------------
(* Properties of the decision engine (checked under SpecDecision).         *)

\* a makeDecision call has returned
Returned == calls = 1

\* the positions of the returned justification with this criterion
EntriesOf(criterion) ==
  {i \in 1..Len(processingResult.justification) :
     processingResult.justification[i].criterion = criterion}

\* the returned justification holds exactly one entry of this criterion, with this status
OneEntry(criterion, status) ==
  /\ Cardinality(EntriesOf(criterion)) = 1
  /\ \A i \in EntriesOf(criterion) : processingResult.justification[i].status = status

\* the number of returned justification entries with this status
NumStatus(status) ==
  Cardinality({i \in 1..Len(processingResult.justification) :
                 processingResult.justification[i].status = status})

\* C1: whenever the returned justification holds a not_met entry, the
\* decision is rejected and the amount is 0, whatever else is met.
C1_ForcedRejection ==
  (Returned /\ NumStatus("not_met") > 0) =>
    /\ processingResult.decision = "rejected"
    /\ processingResult.amount = 0

\* C1 witness: a not_met entry next to a met procedure_coverage entry
\* (the check that had set amount to 200000).
C1_Witness ==
  /\ Returned
  /\ NumStatus("not_met") > 0
  /\ OneEntry("procedure_coverage", "met")
  /\ processingResult.decision = "rejected"

\* C2: the decision is approved exactly when there is no not_met entry and
\* at least two met entries; with no not_met entry and fewer than two met
\* entries it is pending.
C2_DecisionResolution ==
  Returned =>
    /\ (processingResult.decision = "approved") <=>
         (NumStatus("not_met") = 0 /\ NumStatus("met") >= 2)
    /\ (NumStatus("not_met") = 0 /\ NumStatus("met") < 2) =>
         processingResult.decision = "pending"

\* C2 witness: exactly age_eligibility met and procedure_coverage met, no
\* third criterion, approved.
C2_Witness ==
  /\ Returned
  /\ Len(processingResult.justification) = 2
  /\ OneEntry("age_eligibility", "met")
  /\ OneEntry("procedure_coverage", "met")
  /\ processingResult.decision = "approved"

\* C3 (as claimed): the amount is non-zero only when the decision is approved.
C3_AmountOnlyWhenApproved ==
  Returned => (processingResult.amount # 0 => processingResult.decision = "approved")

\* C6: for an age >= 1 there is exactly one age_eligibility entry, met
\* exactly when 18 <= age <= 65 and not_met otherwise.
C6_AgeBoundary ==
  (Returned /\ Has(structuredQuery, "age") /\ structuredQuery.age >= 1) =>
    IF 18 <= structuredQuery.age /\ structuredQuery.age <= 65
      THEN OneEntry("age_eligibility", "met")
      ELSE OneEntry("age_eligibility", "not_met")

\* C6 witness: age 66, just above the range, is not_met.
C6_Witness ==
  /\ Returned
  /\ Has(structuredQuery, "age")
  /\ structuredQuery.age = 66
  /\ OneEntry("age_eligibility", "not_met")

\* the policy duration in days as the claim normalises it
ClaimedDays ==
  CASE structuredQuery.policyDurationUnit = "months" -> structuredQuery.policyDuration * 30
    [] structuredQuery.policyDurationUnit = "years" -> structuredQuery.policyDuration * 365
    [] structuredQuery.policyDurationUnit = "days" -> structuredQuery.policyDuration

\* C7: for a policy duration >= 1 with a unit there is exactly one
\* waiting_period entry, met exactly when the duration in days (months x 30,
\* years x 365, days x 1) is at least 30 and not_met otherwise.
C7_WaitingPeriodBoundary ==
  (/\ Returned
   /\ Has(structuredQuery, "policyDuration")
   /\ Has(structuredQuery, "policyDurationUnit")
   /\ structuredQuery.policyDuration >= 1) =>
    IF ClaimedDays >= 30
      THEN OneEntry("waiting_period", "met")
      ELSE OneEntry("waiting_period", "not_met")

\* C7 witness: 29 days is not_met.
C7_Witness ==
  /\ Returned
  /\ Has(structuredQuery, "policyDuration")
  /\ structuredQuery.policyDuration = 29
  /\ structuredQuery.policyDurationUnit = "days"
  /\ OneEntry("waiting_period", "not_met")

\* the criteria the claim expects, in evaluation order, one per present field
ClaimedCriteria ==
  (IF Has(structuredQuery, "age") THEN <<"age_eligibility">> ELSE <<>>)
  \o (IF Has(structuredQuery, "procedure") THEN <<"procedure_coverage">> ELSE <<>>)
  \o (IF Has(structuredQuery, "policyDuration") THEN <<"waiting_period">> ELSE <<>>)
  \o (IF Has(structuredQuery, "location") THEN <<"geographic_coverage">> ELSE <<>>)

\* C8 (as claimed): a criterion is evaluated exactly when its field is
\* present, each appends one entry, in the fixed order; a present field is
\* never skipped, a field whose value is 0 included.
C8_CriteriaFollowPresentFields ==
  Returned =>
    [i \in 1..Len(processingResult.justification) |->
       processingResult.justification[i].criterion] = ClaimedCriteria

\* the status the claim gives the procedure_coverage entry
ClaimedProcedureStatus ==
  LET p == toLowerCase(structuredQuery.procedure) IN
    IF \/ includes(p, <<"k","n","e","e">>)
       \/ includes(p, <<"o","r","t","h","o","p","e","d","i","c">>)
       \/ includes(p, <<"j","o","i","n","t">>)
      THEN "met"
    ELSE IF includes(p, <<"d","e","n","t","a","l">>) THEN "not_met"
    ELSE "unclear"

\* C9: for a procedure there is exactly one procedure_coverage entry: met
\* for knee / orthopedic / joint (the amount is then 200000 unless an entry
\* is not_met), not_met for dental, unclear otherwise; an unclear procedure
\* does not reject: a rejection then rests on another, not_met entry.
C9_ProcedureCoverage ==
  (Returned /\ Has(structuredQuery, "procedure")) =>
    /\ OneEntry("procedure_coverage", ClaimedProcedureStatus)
    /\ (ClaimedProcedureStatus = "met" /\ NumStatus("not_met") = 0) =>
         processingResult.amount = 200000
    /\ (ClaimedProcedureStatus = "unclear" /\ processingResult.decision = "rejected") =>
         \E i \in 1..Len(processingResult.justification) :
           /\ processingResult.justification[i].criterion # "procedure_coverage"
           /\ processingResult.justification[i].status = "not_met"

\* C9 witness: a joint procedure is met and carries the amount 200000.
C9_Witness ==
  /\ Returned
  /\ Has(structuredQuery, "procedure")
  /\ includes(structuredQuery.procedure, <<"j","o","i","n","t">>)
  /\ OneEntry("procedure_coverage", "met")
  /\ processingResult.amount = 200000

\* the six major cities of the claim
ClaimedMajorCities ==
  { <<"p","u","n","e">>, <<"m","u","m","b","a","i">>, <<"d","e","l","h","i">>,
    <<"b","a","n","g","a","l","o","r","e">>, <<"c","h","e","n","n","a","i">>,
    <<"k","o","l","k","a","t","a">> }

\* C10: for a location there is exactly one geographic_coverage entry, met
\* for one of the six major cities and unclear otherwise, never not_met; a
\* query with a location only is not rejected.
C10_GeographicNeverNotMet ==
  (Returned /\ Has(structuredQuery, "location")) =>
    /\ IF toLowerCase(structuredQuery.location) \in ClaimedMajorCities
         THEN OneEntry("geographic_coverage", "met")
         ELSE OneEntry("geographic_coverage", "unclear")
    /\ DOMAIN structuredQuery = {"location"} => processingResult.decision # "rejected"

\* C10 witness: a location outside the major cities is unclear and the
\* decision stays pending.
C10_Witness ==
  /\ Returned
  /\ DOMAIN structuredQuery = {"location"}
  /\ ~(toLowerCase(structuredQuery.location) \in ClaimedMajorCities)
  /\ OneEntry("geographic_coverage", "unclear")
  /\ processingResult.decision = "pending"


\* the confidence score (in hundredths) the claim gives each decision
ClaimedConfidence ==
  [d \in {"rejected", "approved", "pending"} |->
     IF d = "rejected" THEN 90 ELSE IF d = "approved" THEN 85 ELSE 70]

\* the deductible the claim gives each decision
ClaimedDeductible ==
  [d \in {"rejected", "approved", "pending"} |-> IF d = "approved" THEN 10000 ELSE 0]

\* C11: confidenceScore and deductible are functions of the decision:
\* rejected gives 0.9 and 0, approved gives 0.85 and 10000, pending gives
\* 0.7 and 0; so the deductible is non-zero only when approved.
C11_ConfidenceAndDeductibleByDecision ==
  Returned =>
    /\ processingResult.decision \in {"rejected", "approved", "pending"}
    /\ processingResult.confidenceScore = ClaimedConfidence[processingResult.decision]
    /\ processingResult.deductible = ClaimedDeductible[processingResult.decision]

\* C11 witness: a pending result that had a met criterion, with confidence
\* 0.7 and deductible 0.
C11_Witness ==
  /\ Returned
  /\ processingResult.decision = "pending"
  /\ NumStatus("met") = 1
  /\ processingResult.confidenceScore = 70
  /\ processingResult.deductible = 0

\* the policy duration in months, as the claim normalises it
ClaimedMonths ==
  IF structuredQuery.policyDurationUnit = "months" THEN structuredQuery.policyDuration
  ELSE IF structuredQuery.policyDurationUnit = "years" THEN structuredQuery.policyDuration * 12
  ELSE structuredQuery.policyDuration \div 30

\* C12: coverageDetails.policyDurationMonths is the policy duration
\* normalised to months: months as is, years x 12, days floor(d / 30).
C12_PolicyDurationMonths ==
  (Returned /\ Has(structuredQuery, "policyDuration")) =>
    /\ Has(processingResult.coverageDetails, "policyDurationMonths")
    /\ processingResult.coverageDetails.policyDurationMonths = ClaimedMonths

\* C12 witness: 45 days are reported as 1 month.
C12_Witness ==
  /\ Returned
  /\ Has(structuredQuery, "policyDuration")
  /\ structuredQuery.policyDuration = 45
  /\ structuredQuery.policyDurationUnit = "days"
  /\ processingResult.coverageDetails.policyDurationMonths = 1

\* C27: the amount returned by makeDecision is 0 or 200000, and it is
\* 200000 exactly when the procedure_coverage entry is met and no entry is
\* not_met, whether or not the decision is approved.
C27_AmountByProcedureCoverage ==
  Returned =>
    /\ processingResult.amount \in {0, 200000}
    /\ (processingResult.amount = 200000) <=>
         (OneEntry("procedure_coverage", "met") /\ NumStatus("not_met") = 0)

\* C27 witness: an approval reached through the age and the location alone
\* carries amount 0.
C27_Witness ==
  /\ Returned
  /\ processingResult.decision = "approved"
  /\ processingResult.amount = 0
  /\ EntriesOf("procedure_coverage") = {}
  /\ OneEntry("age_eligibility", "met")
  /\ OneEntry("geographic_coverage", "met")

\* C27 second witness: a pending decision carries amount 200000.
C27_PendingWitness ==
  /\ Returned
  /\ processingResult.decision = "pending"
  /\ processingResult.amount = 200000

---------------------------------------------------------------------------
(* Properties of the rule-based path on a query text (checked under        *)
(* SpecParse).                                                             *)

\* the scenario text "46M, knee surgery, Pune, 3-month policy"
ScenarioText ==
  <<"4","6","M",","," ","k","n","e","e"," ","s","u","r","g","e","r","y",","," ","P","u","n","e",","," ","3","-","m","o","n","t","h"," ","p","o","l","i","c","y">>

\* the StructuredQuery the claim gives the scenario text
ScenarioQuery ==
  [age |-> 46, gender |-> "Male",
   procedure |-> <<"k","n","e","e"," ","s","u","r","g","e","r","y">>,
   location |-> <<"P","u","n","e">>,
   policyDuration |-> 3, policyDurationUnit |-> "months"]

\* C13: parseQuery on the scenario text yields age 46, gender Male,
\* procedure 'knee surgery', location 'Pune', policy duration 3 months, and
\* makeDecision on it yields the four criteria all met and approved.
C13_EndToEndScenario ==
  (Returned /\ queryTextArg = ScenarioText) =>
    /\ structuredQuery = ScenarioQuery
    /\ Len(processingResult.justification) = 4
    /\ OneEntry("age_eligibility", "met")
    /\ OneEntry("procedure_coverage", "met")
    /\ OneEntry("waiting_period", "met")
    /\ OneEntry("geographic_coverage", "met")
    /\ processingResult.decision = "approved"

\* C13 witness: the scenario text has been parsed and decided.
C13_Witness ==
  /\ Returned
  /\ queryTextArg = ScenarioText
  /\ structuredQuery.age = 46
  /\ processingResult.decision = "approved"

\* a text that matches none of the patterns of parseQuery
NoPatternText ==
  <<"h","e","l","l","o"," ","t","h","e","r","e"," ">>

\* C14: parseQuery on the empty string, or on a text matching no pattern,
\* returns a StructuredQuery with every field unset, and makeDecision on a
\* StructuredQuery with no fields returns pending, an empty justification
\* and confidenceScore 0.7.
C14_EmptyInputIsPending ==
  Returned =>
    /\ (queryTextArg \in {<<>>, NoPatternText}) => structuredQuery = EmptyObject
    /\ (structuredQuery = EmptyObject) =>
         /\ processingResult.decision = "pending"
         /\ processingResult.justification = <<>>
         /\ processingResult.confidenceScore = 70

\* C14 witness: the empty string has been parsed and decided.
C14_Witness ==
  /\ Returned
  /\ queryTextArg = <<>>
  /\ structuredQuery = EmptyObject
  /\ processingResult.decision = "pending"

\* the lower-cased text of the parseQuery call
LoweredText == toLowerCase(queryTextArg)

\* the text holds the word 'male' other than inside 'female'
StandsAloneMale ==
  \E i \in 1..Len(LoweredText) :
    /\ Lit(LoweredText, i, <<"m","a","l","e">>) # {}
    /\ ~(i >= 3 /\ SubSeq(LoweredText, i - 2, i - 1) = <<"f","e">>)

\* the text holds a Male cue of the claim: 'male', 'm,' or '46m'
MaleCue ==
  StandsAloneMale \/ includes(LoweredText, <<"m",",">>) \/ includes(LoweredText, <<"4","6","m">>)

\* the text holds a Female cue of the claim: 'female', 'f,' or 'woman'
FemaleCue ==
  \/ includes(LoweredText, <<"f","e","m","a","l","e">>)
  \/ includes(LoweredText, <<"f",",">>)
  \/ includes(LoweredText, <<"w","o","m","a","n">>)

\* C20 (as claimed): parseQuery returns Male for a query with a Male cue
\* (the Male check is made first), Female for a query whose cue is
\* 'female', 'f,' or 'woman', and no gender without a cue.
C20_GenderExtraction ==
  Returned =>
    /\ MaleCue => (Has(structuredQuery, "gender") /\ structuredQuery.gender = "Male")
    /\ (FemaleCue /\ ~MaleCue) =>
         (Has(structuredQuery, "gender") /\ structuredQuery.gender = "Female")
    /\ (~FemaleCue /\ ~MaleCue) => ~Has(structuredQuery, "gender")

\* the duration unit tokens of the claim: month(s), year(s), yr, day(s)
ClaimedUnitTokens ==
  { <<"m","o","n","t","h">>, <<"m","o","n","t","h","s">>, <<"y","e","a","r">>,
    <<"y","e","a","r","s">>, <<"y","r">>, <<"d","a","y">>, <<"d","a","y","s">> }

\* the text holds an integer followed by a unit token which is followed
\* eventually, possibly after other words, by the word 'policy'
ClaimedPolicyCue ==
  \E i \in 1..Len(LoweredText) : \E e \in DigitEnds(LoweredText, i) :
    \E k \in SkipSeparators(LoweredText, e) : \E u \in ClaimedUnitTokens :
      /\ Lit(LoweredText, k, u) # {}
      /\ \E p \in (k + Len(u))..Len(LoweredText) :
           Lit(LoweredText, p, <<"p","o","l","i","c","y">>) # {}

\* C21 (as claimed): parseQuery sets policyDuration and policyDurationUnit
\* whenever the text holds an integer followed by a unit token followed
\* eventually, possibly after other words, by 'policy'; the unit is one of
\* days, months, years, and policyDuration is set exactly when
\* policyDurationUnit is set.
C21_PolicyDurationExtraction ==
  Returned =>
    /\ ClaimedPolicyCue =>
         (Has(structuredQuery, "policyDuration") /\ Has(structuredQuery, "policyDurationUnit"))
    /\ Has(structuredQuery, "policyDuration") <=> Has(structuredQuery, "policyDurationUnit")
    /\ Has(structuredQuery, "policyDurationUnit") =>
         structuredQuery.policyDurationUnit \in {"days", "months", "years"}

\* the positions of the digits of the lower-cased text
DigitPositions == {i \in 1..Len(LoweredText) : IsDigit(LoweredText[i])}

\* the first integer of the lower-cased text: the digits from the first
\* digit up to the next character that is no digit
FirstInteger ==
  LET i == Leftmost(DigitPositions)
      stops == {e \in i..Len(LoweredText) : ~IsDigit(LoweredText[e])} \cup {Len(LoweredText) + 1}
  IN parseInt(SubSeq(LoweredText, i, Leftmost(stops) - 1))

\* C22: parseQuery sets age to the first integer of the lower-cased text,
\* whatever that integer denotes, and leaves age unset exactly when the
\* text holds no digit.
C22_AgeIsFirstInteger ==
  Returned =>
    /\ Has(structuredQuery, "age") <=> DigitPositions # {}
    /\ Has(structuredQuery, "age") => structuredQuery.age = FirstInteger

\* C22 witness: a text with two different integers ('30 years old' and a
\* '3-month policy') has been parsed, and age is the first of them.
C22_Witness ==
  /\ Returned
  /\ Has(structuredQuery, "age") /\ structuredQuery.age = 30
  /\ Has(structuredQuery, "policyDuration") /\ structuredQuery.policyDuration = 3

\* C22 witness of the other case is the text with no digit.
C22_NoDigitWitness ==
  /\ Returned
  /\ queryTextArg # <<>>
  /\ DigitPositions = {}
  /\ ~Has(structuredQuery, "age")

---------------------------------------------------------------------------
(* Properties of the clause extraction (checked under SpecExtract).        *)

\* the length-filtered segments of the text of the call, in order
Segments == sentencesOf(textArg)

\* the positions of the segments that become ClauseCandidates, in order
CandidatePositions(segs) ==
  sortedSeq({n \in 1..Len(segs) : isSignificant(segs[n])})

\* the positions of the segments that match the header pattern
HeaderPositions(segs) == {h \in 1..Len(segs) : sectionMatch(segs[h])}

\* C23: a segment matching the section-header pattern becomes the current
\* section; every ClauseCandidate from that segment up to (not including)
\* the next header segment records that section, and candidates before the
\* first header record no section.
C23_SectionCarryForward ==
  (calls = 1) =>
    LET segs == Segments
        positions == <<>> \o CandidatePositions(segs)
        headers == HeaderPositions(segs)
    IN /\ Len(clauseCandidates) = Len(positions)
       /\ \A j \in 1..Len(clauseCandidates) :
            LET n == positions[j]
                before == {h \in headers : h <= n}
            IN /\ clauseCandidates[j].clauseText = segs[n]
               /\ (before = {}) => ~Has(clauseCandidates[j], "section")
               /\ (before # {}) =>
                    /\ Has(clauseCandidates[j], "section")
                    /\ clauseCandidates[j].section = segs[Greedy(before)]

\* C23 witness: a candidate before the first header without a section, the
\* header, and a later candidate that is no header and records the header.
C23_Witness ==
  /\ calls = 1
  /\ Len(clauseCandidates) = 3
  /\ ~Has(clauseCandidates[1], "section")
  /\ sectionMatch(clauseCandidates[2].clauseText)
  /\ ~sectionMatch(clauseCandidates[3].clauseText)
  /\ Has(clauseCandidates[3], "section")
  /\ clauseCandidates[3].section = clauseCandidates[2].clauseText

---------------------------------------------------------------------------
(* Properties of the clause search (checked under SpecRelevance).          *)

\* the elements of a sequence
Range(seq) == {seq[i] : i \in DOMAIN seq}

\* the clause list of the call holds no text twice
DistinctInput == Cardinality(Range(allClausesArg)) = Len(allClausesArg)

\* the clause matches one of the search terms built for the query
MatchesTerm(clause) == relevanceScore(searchTerms(structuredQuery), clause) > 0

\* C15: findRelevantClauses returns at most 10 clauses, each an element of
\* the input list, none twice; on 15 distinct clauses that all match a
\* search term it returns exactly 10.
C15_RelevanceCap ==
  Returned =>
    /\ Len(relevantClauses) <= 10
    /\ Range(relevantClauses) \subseteq Range(allClausesArg)
    /\ Cardinality(Range(relevantClauses)) = Len(relevantClauses)
    /\ (/\ Len(allClausesArg) = 15
        /\ DistinctInput
        /\ \A i \in DOMAIN allClausesArg : MatchesTerm(allClausesArg[i]))
         => Len(relevantClauses) = 10

\* C15 witness: 15 distinct clauses that all match a search term went in,
\* 10 came out.
C15_Witness ==
  /\ Returned
  /\ Len(allClausesArg) = 15
  /\ DistinctInput
  /\ \A i \in DOMAIN allClausesArg : MatchesTerm(allClausesArg[i])
  /\ Len(relevantClauses) = 10

\* the position of a clause text in the clause list of the call
InputPosition(clause) == CHOOSE i \in DOMAIN allClausesArg : allClausesArg[i] = clause

\* C16 (as claimed): on a list of distinct clauses the result keeps the
\* relative order of the input, whether a clause was selected by a search
\* term or by an always-relevant keyword.
C16_OrderPreserving ==
  (Returned /\ DistinctInput) =>
    \A i, j \in DOMAIN relevantClauses :
      i < j => InputPosition(relevantClauses[i]) < InputPosition(relevantClauses[j])

\* the search terms the claim builds from the fields present in the query
ClaimedSearchTerms ==
  (IF Has(structuredQuery, "procedure")
     THEN {toLowerCase(structuredQuery.procedure)}
          \cup (IF includes(toLowerCase(structuredQuery.procedure), <<"k","n","e","e">>)
                  THEN {<<"o","r","t","h","o","p","e","d","i","c">>, <<"s","u","r","g","i","c","a","l">>, <<"j","o","i","n","t">>}
                  ELSE {})
     ELSE {})
  \cup (IF Has(structuredQuery, "age") THEN {<<"a","g","e">>, <<"a","g","e","d">>, <<"y","e","a","r","s">>} ELSE {})
  \cup (IF Has(structuredQuery, "location")
          THEN {<<"g","e","o","g","r","a","p","h","i","c">>, <<"c","o","v","e","r","a","g","e">>, <<"c","i","t","i","e","s">>, <<"i","n","d","i","a">>}
          ELSE {})
  \cup (IF Has(structuredQuery, "policyDuration")
          THEN {<<"w","a","i","t","i","n","g">>, <<"p","e","r","i","o","d">>, <<"m","o","n","t","h","s">>, <<"c","o","n","t","i","n","u","o","u","s">>}
          ELSE {})

\* the always-relevant keywords of the claim
ClaimedKeywords ==
  {<<"c","o","v","e","r","a","g","e">>, <<"e","l","i","g","i","b","l","e">>, <<"s","u","r","g","i","c","a","l">>, <<"d","e","d","u","c","t","i","b","l","e">>, <<"s","u","m"," ","i","n","s","u","r","e","d">>}

\* the clauses of the input the claim selects
ClaimedSelection ==
  {clause \in Range(allClausesArg) :
     \E term \in ClaimedSearchTerms \cup ClaimedKeywords :
       includes(toLowerCase(clause), term)}

\* C19 (as claimed): a clause is selected exactly when its lower-cased text
\* contains a search term built from the fields present in the query or an
\* always-relevant keyword; when at most 10 distinct clauses qualify the
\* result is exactly that set.
C19_RelevanceCriterion ==
  Returned =>
    /\ Range(relevantClauses) \subseteq ClaimedSelection
    /\ Cardinality(ClaimedSelection) <= 10 => Range(relevantClauses) = ClaimedSelection

---------------------------------------------------------------------------
(* Properties of the server (checked under Spec).                          *)

\* analyzeQuery of request r has ended, by returning or by throwing
Ended(r) == requests[r].pc = "responded" /\ requests[r].status # 400

\* what the rule-based path computes for request r from the clauses it read
RuleBasedResult(r) ==
  LET q == parseQuery(requests[r].queryText) IN
    makeDecision(q, findRelevantClauses(q, clauseTextsOf(requests[r].allClauses)),
                 requests[r].result.processingTimeMs)

\* C4: whenever an external AI call of analyzeQuery has failed (network
\* error, missing credential or malformed response), analyzeQuery returns
\* the result computed by the rule-based parseQuery, findRelevantClauses and
\* makeDecision.
C4_AiFailureFallsThrough ==
  \A r \in DOMAIN requests :
    (Ended(r) /\ requests[r].aiFailures # {}) =>
      /\ requests[r].status = 200
      /\ requests[r].result = RuleBasedResult(r)

\* C5: every clause read by analyzeQuery belongs to a document whose
\* isProcessed flag is true.
C5_OnlyProcessedClausesRead ==
  \A r \in DOMAIN requests :
    \A i \in DOMAIN requests[r].allClauses :
      documents[requests[r].allClauses[i].documentId].isProcessed

\* analyzeQuery of request r has stored its query
QueryStored(r) == requests[r].pc \in {"store", "responded"}

\* the results stored for the query of request r
StoredResults(r) ==
  {i \in DOMAIN queryResults : queryResults[i].queryId = requests[r].queryId}

C18_AiFailureNeverAnError ==
  \A r \in DOMAIN requests :
    Ended(r) =>
      /\ requests[r].status = 200
      /\ StoredResults(r) # {}


---------------------------------------------------------------------------
(* Properties of the document ingestion (checked under SpecLive).          *)

\* the text pdf-parse reports for a PDF without text
NoTextContent ==
  <<"N","o"," ","t","e","x","t"," ","c","o","n","t","e","n","t"," ","f","o","u","n","d"," ","i","n"," ","P","D","F">>

\* the texts the claim lets processDocument work on: what the PDF parser
\* extracted, or the built-in placeholder policy text
ClaimedTexts(document) ==
  IF isPdfDocument(document)
    THEN {PdfText, NoTextContent, getRealInsurancePolicyData}
    ELSE {getRealInsurancePolicyData}

\* the job has its text and its clause candidates
Extracted(id) == jobs[id].pc \in {"store", "mark", "done"}

\* the clauses stored for a document, in the order stored
StoredClauseTexts(id) ==
  LET idx == {i \in 1..Len(documentClauses) : documentClauses[i].documentId = id}
      order == sortedSeq(idx)
  IN [k \in 1..Len(order) |-> documentClauses[order[k]].clauseText]

\* every processDocument call eventually marks its document processed
C24_EventuallyProcessed ==
  \A id \in 1..MaxUploads :
    (id \in DOMAIN jobs) ~> (id \in DOMAIN documents /\ documents[id].isProcessed)

\* a failed PDF text extraction or a non-PDF file works on the placeholder
\* text, which goes through the same clause extraction
C24_PlaceholderOnFailure ==
  \A id \in DOMAIN jobs :
    Extracted(id) =>
      /\ jobs[id].extractedText \in ClaimedTexts(jobs[id].document[1])
      /\ jobs[id].clauses = extractClauses(jobs[id].extractedText)

\* after the loop every clause candidate has been stored, whatever the
\* embedding call returned
C24_RemainingClausesStored ==
  \A id \in DOMAIN jobs :
    (jobs[id].pc \in {"mark", "done"}) =>
      StoredClauseTexts(id) = [k \in 1..Len(jobs[id].clauses) |-> jobs[id].clauses[k].clauseText]

\* C24 (as claimed): every processDocument call on an existing document
\* eventually marks it processed; a failed PDF text extraction or a non-PDF
\* file substitutes the built-in placeholder policy text, which goes
\* through the same clause extraction; a failed embedding does not stop
\* the remaining clauses from being stored.
C24_IngestionCompletes ==
  /\ C24_EventuallyProcessed
  /\ []C24_PlaceholderOnFailure
  /\ []C24_RemainingClausesStored

---------------------------------------------------------------------------
(* Properties of the stored queries and results (checked under             *)
(* SpecQueries).                                                           *)

\* the invocation of request r has stored its query
PastCreateQuery(r) ==
  requests[r].pc \in {"store", "responded"} /\ requests[r].status # 400

\* the invocation of request r returned its result
Successful(r) == requests[r].pc = "responded" /\ requests[r].status = 200

\* the results stored for the query with the given id
ResultsOf(queryId) ==
  {i \in 1..Len(queryResults) : queryResults[i].queryId = queryId}

\* one query record per invocation; a successful invocation has exactly one
\* result, whose queryId is the id of its own query; every result
\* references an existing query and no query has two results
C25_Consistent ==
  /\ Len(queries) = Cardinality({r \in DOMAIN requests : PastCreateQuery(r)})
  /\ \A r \in DOMAIN requests :
       PastCreateQuery(r) =>
         /\ requests[r].queryId \in DOMAIN queries
         /\ queries[requests[r].queryId].id = requests[r].queryId
         /\ queries[requests[r].queryId].queryText = requests[r].queryText
         /\ queries[requests[r].queryId].structuredData = requests[r].structuredQuery
         /\ \A o \in DOMAIN requests :
              (PastCreateQuery(o) /\ o # r) => requests[o].queryId # requests[r].queryId
  /\ \A r \in DOMAIN requests :
       Successful(r) => Cardinality(ResultsOf(requests[r].queryId)) = 1
  /\ \A i \in 1..Len(queryResults) : queryResults[i].queryId \in DOMAIN queries
  /\ \A k \in DOMAIN queries : Cardinality(ResultsOf(queries[k].id)) <= 1

\* a step leaves every stored query and result as it is
C25_NeverModified ==
  /\ \A k \in DOMAIN queries : k \in DOMAIN queries' /\ queries'[k] = queries[k]
  /\ \A i \in DOMAIN queryResults :
       i \in DOMAIN queryResults' /\ queryResults'[i] = queryResults[i]

\* C25: under any interleaving of concurrent analyzeQuery invocations, a
\* successful invocation creates exactly one query record and then exactly
\* one result record whose queryId is the id of the query it created; every
\* stored result references an existing query, no query has more than one
\* result, and stored records are never modified afterwards.
C25_RecordedOnce ==
  []C25_Consistent /\ [][C25_NeverModified]_vars

\* C25 witness: two invocations ran concurrently, the second one stored its
\* query first, and both returned with their results stored.
C25_Witness ==
  /\ Len(requests) = 2
  /\ Successful(1) /\ Successful(2)
  /\ requests[1].queryId = 2 /\ requests[2].queryId = 1
  /\ queryResults[1].queryId = 2
  /\ queryResults[2].queryId = 1

---------------------------------------------------------------------------
(* Properties of the upload route (checked under Spec).                    *)

\* the MIME types of PDF, DOC and DOCX documents
DocumentMimeTypes ==
  {"application/pdf", "application/msword",
   "application/vnd.openxmlformats-officedocument.wordprocessingml.document"}

\* the file is a PDF, DOC or DOCX document, by its name or by its type
IsPdfDocOrDocx(file) ==
  \/ toLowerCase(extname(file.originalname))
       \in {<<".","p","d","f">>, <<".","d","o","c">>, <<".","d","o","c","x">>}
  \/ file.mimetype \in DocumentMimeTypes

\* the uploads that were answered with a document
AcceptedUploads == {u \in DOMAIN uploads : uploads[u].status = 200}

\* C26 (as claimed): the upload filter accepts a file only if it is a PDF,
\* DOC or DOCX document; every other file is rejected with HTTP 400 and no
\* document record is created or scheduled for processing for it.
C26_UploadValidation ==
  /\ \A u \in DOMAIN uploads :
       /\ uploads[u].status \in {200, 400}
       /\ (uploads[u].status = 200) => IsPdfDocOrDocx(uploads[u].file)
       /\ ~IsPdfDocOrDocx(uploads[u].file) =>
            (uploads[u].status = 400 /\ uploads[u].document = Null)
  /\ Len(documents) = Cardinality(AcceptedUploads)
  /\ Len(jobs) = Cardinality(AcceptedUploads)

---------------------------------------------------------------------------
(* Properties of the rule-based decision inside analyzeQuery (checked      *)
(* under Spec).                                                            *)

\* a result without its processingTimeMs
Outcome(result) ==
  [decision |-> result.decision, amount |-> result.amount,
   deductible |-> result.deductible, coverageDetails |-> result.coverageDetails,
   justification |-> result.justification, confidenceScore |-> result.confidenceScore]

\* request r has been decided by the catch block of analyzeQuery
DecidedByFallback(r) ==
  requests[r].path = "fallback" /\ requests[r].pc \in {"store", "responded"}

\* C28: makeDecision(q, c1) and makeDecision(q, c2) agree on everything but
\* processingTimeMs for any clause lists c1 and c2, so on the fallback path
\* the outcome is the one of an empty clause store, whatever was uploaded.
C28_DecisionIgnoresClauses ==
  \A r \in DOMAIN requests :
    DecidedByFallback(r) =>
      \A c \in {<<>>, requests[r].relevantClauses,
                clauseTextsOf(getAllClauses(documentClauses))} :
        Outcome(requests[r].result) = Outcome(makeDecision(requests[r].structuredQuery, c, 0))

\* C28 witness: the catch block decided an approval with clauses retrieved
\* from an uploaded document.
C28_Witness ==
  \E r \in DOMAIN requests :
    /\ DecidedByFallback(r)
    /\ requests[r].relevantClauses # <<>>
    /\ requests[r].result.decision = "approved"

---------------------------------------------------------------------------
(* Properties of the document records (checked under Spec).                *)

\* a processed document has its extracted text, its processDocument call
\* has passed markDocumentProcessed, and every upload response reports its
\* document as not yet processed
C29_ProcessedHasText ==
  /\ \A id \in DOMAIN documents :
       documents[id].isProcessed =>
         /\ documents[id].extractedText # Null
         /\ id \in DOMAIN jobs /\ jobs[id].pc = "done"
  /\ \A u \in DOMAIN uploads :
       (uploads[u].status = 200) => uploads[u].document[1].isProcessed = FALSE

\* a step creates documents unprocessed and without text, never takes the
\* flag back, and sets it only in the markDocumentProcessed step of
\* processDocument, when the text is already stored
C29_FlagSteps ==
  /\ \A id \in DOMAIN documents' :
       (id \notin DOMAIN documents) =>
         (documents'[id].isProcessed = FALSE /\ documents'[id].extractedText = Null)
  /\ \A id \in DOMAIN documents :
       /\ id \in DOMAIN documents'
       /\ documents[id].isProcessed => documents'[id].isProcessed
       /\ (~documents[id].isProcessed /\ documents'[id].isProcessed) =>
            /\ documents[id].extractedText # Null
            /\ jobs[id].pc = "mark" /\ jobs'[id].pc = "done"

\* C29: a document is created with isProcessed = false; the flag is set to
\* true only by processDocument and only after its extracted text has been
\* stored, and never returns to false; isProcessed = true implies that
\* extractedText is set, and the upload response always reports the
\* document as not yet processed.
C29_DocumentLifecycle ==
  []C29_ProcessedHasText /\ [][C29_FlagSteps]_vars

\* C29 witness: an uploaded document has been processed and holds its
\* extracted text, and its upload response said it was not processed.
C29_Witness ==
  /\ Len(documents) = 1
  /\ documents[1].isProcessed
  /\ documents[1].extractedText = Some(PdfText)
  /\ uploads[1].status = 200
  /\ uploads[1].document[1].isProcessed = FALSE

---------------------------------------------------------------------------
(* Properties of the query history (checked under SpecHistory).            *)

\* every entry is a stored query of the user asked for, paired with the
\* first stored result of that query, or with none
C30_EntriesOfUser ==
  \A k \in 1..Len(history.entries) :
    LET entry == history.entries[k] IN
      /\ entry.query.id \in DOMAIN queries
      /\ entry.query = queries[entry.query.id]
      /\ entry.query.userId = history.userId
      /\ LET stored == {i \in 1..Len(queryResults) : queryResults[i].queryId = entry.query.id}
         IN IF stored = {} THEN entry.result = Null
            ELSE entry.result # Null /\ entry.result[1].queryId = entry.query.id

\* the entries come newest first: a query stored later stands before a
\* query stored earlier
C30_NewestFirst ==
  \A k \in 1..Len(history.entries), m \in 1..Len(history.entries) :
    (k < m) => history.entries[k].query.id > history.entries[m].query.id

\* the entries come by createdAt, descending
C30_ByCreatedAt ==
  \A k \in 1..Len(history.entries), m \in 1..Len(history.entries) :
    (k < m) => history.entries[k].query.createdAt >= history.entries[m].query.createdAt

\* C30 (as claimed): getQueryHistory(user) returns at most 10 entries, all
\* of them queries created for that user, ordered newest first, each paired
\* with the stored result whose queryId equals that query's id (or with no
\* result if none was stored); queries of other users never appear.
C30_HistoryBounded ==
  (calls = 1) =>
    /\ Len(history.entries) <= 10
    /\ C30_EntriesOfUser
    /\ C30_NewestFirst

\* the claim with the order taken by createdAt
C30_HistoryByCreatedAt ==
  (calls = 1) =>
    /\ Len(history.entries) <= 10
    /\ C30_EntriesOfUser
    /\ C30_ByCreatedAt

\* the history was cut: the user has 11 stored queries and 10 entries
C30_CutReached ==
  /\ calls = 1
  /\ history.userId = DEMO_USER_ID
  /\ Cardinality({i \in 1..Len(queries) : queries[i].userId = DEMO_USER_ID}) = 11
  /\ Len(history.entries) = 10
====
